---- MODULE Spec2Model ----
(***************************************************************************)
(* Model of the virtual-disk placement of the RAID multimedia simulator    *)
(* (run.py, build_virtual_disks): an ordered list of scanned files is      *)
(* copied onto num disk folders according to the RAID level, with greedy   *)
(* load balancing (RAID 0 / RAID 5), mirroring (RAID 1) and rotating       *)
(* parity placeholder files (RAID 5).                                      *)
(***************************************************************************)
EXTENDS Integers, Sequences, FiniteSets, TLC

VARIABLES raid, num, files, pc, idx, disk_loads, disks, assignment, prev

\* the last call of a function of Raid_Calculation.py and what it returned
VARIABLES call, ret

\* the variables of the capacity / performance calculator
cvars == <<call, ret>>

\* the variables of the placement
pvars == <<raid, num, files, pc, idx, disk_loads, disks, assignment, prev>>

\* the run log of Data_Analysis.append_run: the DataFrame objects created so
\* far, the log the caller holds (0 is None), what the caller passed to each
\* call, and the run_info_dict of each call
VARIABLES heap, log, passed, calls

lvars == <<heap, log, passed, calls>>

\* the Gradio application of run.py: the global last_scan, the handler
\* threads, every file written under reports/, the wall clock in seconds,
\* the number of calls started and the state of matplotlib.pyplot (its
\* figures and which of them is the current one)
VARIABLES last_scan, threads, written, clock, ncalls, pyplot

avars == <<last_scan, threads, written, clock, ncalls, pyplot>>

vars == <<raid, num, files, pc, idx, disk_loads, disks, assignment, prev,
          call, ret, heap, log, passed, calls,
          last_scan, threads, written, clock, ncalls, pyplot>>

\* no log exists yet
LogIdle ==
    /\ heap = << >>
    /\ log = 0
    /\ passed = << >>
    /\ calls = << >>

\* handler threads a Gradio server runs side by side
MaxThreads == 2

Threads == 1 .. MaxThreads

\* a thread that runs no handler
Idle == [ pc |-> "idle" ]

\* last_scan = {"folder": None, "files": [], "total_bytes": 0}
NoScan == [ folder |-> "None", files |-> << >>, total_bytes |-> 0 ]

\* one write under reports/: the name, the call that wrote it (0 is the
\* start of the application), what it wrote
WriteEvent(name, id, data) == [ name |-> name, run |-> id, data |-> data ]

\* a file whose name is the same in every call
FixedName(filename) == [ kind |-> filename ]

\* importing Data_Analysis runs its module-level demonstration: two runs
\* (RAID 5 on 4 disks, RAID 10 on 8) are appended and the frame and its
\* statistics are saved under fixed names
ImportWrites ==
    { WriteEvent(FixedName("simulation_report.csv"), 0,
                 [ rows |-> << [ raid_level |-> 5, disk_count |-> 4 ],
                               [ raid_level |-> 10, disk_count |-> 8 ] >> ]),
      WriteEvent(FixedName("statistics_report.csv"), 0,
                 [ rows |-> << [ raid_level |-> 5, disk_count |-> 4 ],
                               [ raid_level |-> 10, disk_count |-> 8 ] >> ]) }

\* pyplot after import: no figure exists and none is current
NoPlot == [ current |-> << >>, figures |-> << >> ]

\* the application has just been started
AppIdle ==
    /\ pyplot = NoPlot
    /\ last_scan = NoScan
    /\ threads = [ t \in Threads |-> Idle ]
    /\ written = ImportWrites
    /\ clock = 0
    /\ ncalls = 0

(***************************************************************************)
(* Bounds of the model.                                                    *)
(***************************************************************************)
MaxDisks == 4
MaxItems == 4

DiskCounts == 0..MaxDisks

RaidLevels == {"RAID 0", "RAID 1", "RAID 5"}

\* File sizes in bytes, as os.path.getsize reports them.
Sizes == {100, 200}

\* Paths that os.walk can list: two files with the same name in different
\* sub-folders, two files with the same stem and different extensions, and
\* an unrelated file.
PathPool ==
    { [dir |-> "d1", stem |-> "a", ext |-> "jpg"],
      [dir |-> "d2", stem |-> "a", ext |-> "jpg"],
      [dir |-> "d1", stem |-> "a", ext |-> "png"],
      [dir |-> "d1", stem |-> "b", ext |-> "mp4"] }

\* A scanned file: its path and the size of the file at that path.
FileOf(p, s) == [dir |-> p.dir, stem |-> p.stem, ext |-> p.ext, size |-> s]

PathOf(f) == [dir |-> f.dir, stem |-> f.stem, ext |-> f.ext]

\* os.walk lists every path once: the lists of distinct paths, each with a size.
RECURSIVE FileLists(_)
FileLists(n) ==
    IF n = 0 THEN { <<>> }
    ELSE LET shorter == FileLists(n - 1)
         IN  shorter \cup
             { Append(l, FileOf(p, s)) :
                 l \in { x \in shorter : Len(x) = n - 1 },
                 p \in PathPool, s \in Sizes }

DistinctPaths(l) ==
    \A i, j \in 1..Len(l) : i # j => PathOf(l[i]) # PathOf(l[j])

ScannedLists == { l \in FileLists(MaxItems) : DistinctPaths(l) }

(***************************************************************************)
(* Helpers of build_virtual_disks.                                         *)
(***************************************************************************)
\* os.path.getsize(f)
getsize(f) == f.size

\* Path(f).name as the file name inside a disk folder
FileName(f) == [stem |-> f.stem, suffix |-> "", ext |-> f.ext]

\* f"{Path(f).stem}_PARITY.txt"
ParityName(f) == [stem |-> f.stem, suffix |-> "_PARITY", ext |-> "txt"]

\* range(num) as a list
Range(n) == [i \in 1..n |-> i - 1]

\* Variant: a dedicated parity disk (the last one) instead of a rotating one.
ParityDisk_dedicated(i, n) == n - 1

\* idx % num, the rotating parity disk of the file at 0-based position i
ParityDisk(i, n) == i % n

\* Variant: the parity disk is not excluded from the data candidates.
Candidates_all(r, n, i) == Range(n)

\* the list comprehension building the data candidates
Candidates(r, n, i) ==
    LET keep(d) == (r # "RAID 5") \/ (d # ParityDisk(i, n))
    IN  SelectSeq(Range(n), keep)

\* Python's min(seq, key=...): the first element with the smallest key
RECURSIVE PyMinFrom(_, _, _, _)
PyMinFrom(seq, loads, k, best) ==
    IF k > Len(seq) THEN best
    ELSE IF loads[seq[k]] < loads[best]
         THEN PyMinFrom(seq, loads, k + 1, seq[k])
         ELSE PyMinFrom(seq, loads, k + 1, best)

\* Variant: min(candidates) without the key, i.e. the lowest disk index.
PyMin_nokey(seq, loads) == seq[1]

\* Variant: ties broken by the highest index (<= instead of <).
RECURSIVE PyMinLastFrom(_, _, _, _)
PyMinLastFrom(seq, loads, k, best) ==
    IF k > Len(seq) THEN best
    ELSE IF loads[seq[k]] <= loads[best]
         THEN PyMinLastFrom(seq, loads, k + 1, seq[k])
         ELSE PyMinLastFrom(seq, loads, k + 1, best)

PyMin_last(seq, loads) == PyMinLastFrom(seq, loads, 2, seq[1])

PyMin(seq, loads) == PyMinFrom(seq, loads, 2, seq[1])

\* the if/else choosing the target list of one file
Targets(r, n, i, loads) ==
    IF r = "RAID 1" THEN Range(n)
    ELSE << PyMin(Candidates(r, n, i), loads) >>

\* a write of one file into a folder: an existing name is replaced
WriteFile(dir, name, content) ==
    [ x \in (DOMAIN dir) \cup {name} |-> IF x = name THEN content ELSE dir[x] ]

EmptyDir == [ x \in {} |-> 0 ]

\* Variant: the copy loop without disk_loads[t] += size.
RECURSIVE CopyLoop_noload(_, _, _, _)
CopyLoop_noload(ts, k, f, st) ==
    IF k > Len(ts) THEN st
    ELSE LET t == ts[k]
             content == [kind |-> "data", src |-> PathOf(f), size |-> getsize(f)]
         IN  CopyLoop_noload(ts, k + 1, f,
                 [ dk |-> [st.dk EXCEPT ![t] = WriteFile(@, FileName(f), content)],
                   ld |-> st.ld ])

\* the copy loop: shutil.copy2(f, disks[t]); disk_loads[t] += size
RECURSIVE CopyLoop(_, _, _, _)
CopyLoop(ts, k, f, st) ==
    IF k > Len(ts) THEN st
    ELSE LET t == ts[k]
             content == [kind |-> "data", src |-> PathOf(f), size |-> getsize(f)]
         IN  CopyLoop(ts, k + 1, f,
                 [ dk |-> [st.dk EXCEPT ![t] = WriteFile(@, FileName(f), content)],
                   ld |-> [st.ld EXCEPT ![t] = @ + getsize(f)] ])

\* the RAID 5 parity placeholder written on the parity disk
WriteParity(r, n, i, f, ts, dk) ==
    IF r = "RAID 5"
    THEN LET p_disk == ParityDisk(i, n)
             content == [kind |-> "parity", for |-> FileName(f), dataDisk |-> ts[1]]
         IN  [dk EXCEPT ![p_disk] = WriteFile(@, ParityName(f), content)]
    ELSE dk

\* what one loop iteration decided: the targets and the parity disk
Placed(r, n, i, f, ts) ==
    [ item    |-> PathOf(f),
      size    |-> getsize(f),
      targets |-> ts,
      p_disk  |-> IF r = "RAID 5" THEN ParityDisk(i, n) ELSE -1 ]

NoRun == [ pc |-> "none" ]

\* no function of the calculator has been called
NoCall == [ fn |-> "none" ]

\* Variant: the load table survives from the previous call instead of being
\* rebuilt.
InitialLoads_stale(n) ==
    IF prev # NoRun /\ prev.pc = "done" THEN prev.disk_loads
    ELSE [ d \in 0..(n - 1) |-> 0 ]

\* disk_loads = {i: 0 for i in range(num)}
InitialLoads(n) == [ d \in 0..(n - 1) |-> 0 ]

\* d.mkdir(parents=True, exist_ok=True) for disk_0 .. disk_{n-1} in the base
\* folder virtual_disks_{ts}/<raid>: a folder that exists keeps what it
\* holds, and the disk folders of an earlier call stay in the base folder
InitialDisks(base, n) ==
    [ d \in (DOMAIN base) \cup (0..(n - 1)) |->
        IF d \in DOMAIN base THEN base[d] ELSE EmptyDir ]

Outcome == [ pc |-> pc, disk_loads |-> disk_loads, disks |-> disks,
             assignment |-> assignment, num |-> num, files |-> files ]

(***************************************************************************)
(* The state machine.                                                      *)
(***************************************************************************)
Init ==
    /\ raid \in RaidLevels
    /\ num \in DiskCounts
    /\ files \in ScannedLists
    /\ pc = "start"
    /\ idx = 0
    /\ disk_loads = << >>
    /\ disks = << >>
    /\ assignment = << >>
    /\ prev = NoRun
    /\ call = NoCall
    /\ ret = NoCall
    /\ LogIdle
    /\ AppIdle

\* the disk folders are created in the base folder and the loads zeroed
Setup ==
    /\ pc = "start"
    /\ disks' = InitialDisks(disks, num)
    /\ disk_loads' = InitialLoads(num)
    /\ idx' = 0
    /\ assignment' = << >>
    /\ pc' = "loop"
    /\ UNCHANGED <<raid, num, files, prev>>
    /\ UNCHANGED << cvars, lvars, avars >>

\* one iteration of the loop over the files
PlaceItem ==
    /\ pc = "loop"
    /\ idx < Len(files)
    /\ (raid = "RAID 1") \/ (Candidates(raid, num, idx) # << >>)
    /\ LET f  == files[idx + 1]
           ts == Targets(raid, num, idx, disk_loads)
           st == CopyLoop(ts, 1, f, [dk |-> disks, ld |-> disk_loads])
       IN  /\ disk_loads' = st.ld
           /\ disks' = WriteParity(raid, num, idx, f, ts, st.dk)
           /\ assignment' = Append(assignment, Placed(raid, num, idx, f, ts))
    /\ idx' = idx + 1
    /\ UNCHANGED <<raid, num, files, pc, prev>>
    /\ UNCHANGED << cvars, lvars, avars >>

\* min() of an empty candidate list raises ValueError out of the function
FailItem ==
    /\ pc = "loop"
    /\ idx < Len(files)
    /\ raid # "RAID 1"
    /\ Candidates(raid, num, idx) = << >>
    /\ pc' = "error"
    /\ UNCHANGED <<raid, num, files, idx, disk_loads, disks, assignment, prev>>
    /\ UNCHANGED << cvars, lvars, avars >>

\* the base folder exists once a disk folder was created in it
BaseExists == DOMAIN disks # { }

\* the loop is over: the archive of the base folder is made and the function
\* returns
Finish ==
    /\ pc = "loop"
    /\ idx = Len(files)
    /\ BaseExists
    /\ pc' = "done"
    /\ UNCHANGED <<raid, num, files, idx, disk_loads, disks, assignment, prev>>
    /\ UNCHANGED << cvars, lvars, avars >>

\* with no disk folder the base folder was never created, and
\* shutil.make_archive raises FileNotFoundError out of the function
ArchiveFail ==
    /\ pc = "loop"
    /\ idx = Len(files)
    /\ ~BaseExists
    /\ pc' = "error"
    /\ UNCHANGED <<raid, num, files, idx, disk_loads, disks, assignment, prev>>
    /\ UNCHANGED << cvars, lvars, avars >>

\* the same call is made a second time, in a later second: ts is new and so
\* is the base folder
Rerun ==
    /\ pc \in {"done", "error"}
    /\ prev = NoRun
    /\ prev' = Outcome
    /\ pc' = "start"
    /\ idx' = 0
    /\ disk_loads' = << >>
    /\ disks' = << >>
    /\ assignment' = << >>
    /\ UNCHANGED <<raid, num, files>>
    /\ UNCHANGED << cvars, lvars, avars >>

\* the num arguments of a second call in the same base folder
NextCounts == { n \in DiskCounts : num - 1 <= n /\ n <= num }

\* the files arguments of a second call in the same base folder
NextLists == { files } \cup (IF files = << >> THEN { } ELSE { Tail(files) })

\* a second call with the same level gets the ts of the first (both fall in
\* one second): the base folder is the one the first call filled
RerunSameSecond ==
    /\ pc \in {"done", "error"}
    /\ prev = NoRun
    /\ prev' = Outcome
    /\ pc' = "start"
    /\ idx' = 0
    /\ disk_loads' = << >>
    /\ assignment' = << >>
    /\ num' \in NextCounts
    /\ files' \in NextLists
    /\ UNCHANGED <<raid, disks>>
    /\ UNCHANGED << cvars, lvars, avars >>

Next ==
    \/ Setup
    \/ PlaceItem
    \/ FailItem
    \/ Finish
    \/ ArchiveFail
    \/ Rerun
    \/ RerunSameSecond

Spec == Init /\ [][Next]_vars

(***************************************************************************)
(* Vocabulary of the properties.                                           *)
(***************************************************************************)
Disks == 0..(num - 1)

\* the 1-based positions of the files processed so far in this call
Processed == 1..Len(assignment)

Running == pc \in {"loop", "done", "error"}

\* the configurations the capacity model accepts
ValidConfig == num >= 2 /\ (raid = "RAID 5" => num >= 3)

SetMax(S) == IF S = {} THEN 0 ELSE CHOOSE x \in S : \A y \in S : y <= x

SetMin(S) == IF S = {} THEN 0 ELSE CHOOSE x \in S : \A y \in S : x <= y

Abs(x) == IF x < 0 THEN -x ELSE x

TargetSet(i) == { assignment[i].targets[k] : k \in 1..Len(assignment[i].targets) }

\* the positions of the files whose data went to disk d
RoutedTo(d) == { i \in Processed : d \in TargetSet(i) }

\* the largest single file routed to disk d (0 when there is none)
MaxRouted(d) == SetMax({ assignment[i].size : i \in RoutedTo(d) })

\* the position of the last file routed to disk d (0 when there is none)
LastRouted(d) == SetMax(RoutedTo(d))

\* the positions at which disk d was the parity disk
ParityOf(d) == { i \in Processed : assignment[i].p_disk = d }

RECURSIVE SumSizes(_)
SumSizes(k) == IF k = 0 THEN 0 ELSE files[k].size + SumSizes(k - 1)

AllOfSize(s) == \A i \in 1..Len(files) : files[i].size = s

\* no other file of the list has the name of the file at position i
NameUnique(i) ==
    \A j \in 1..Len(files) : j # i => FileName(files[j]) # FileName(files[i])

(***************************************************************************)
(* C1. Load-balance bound.                                                 *)
(***************************************************************************)
\* C1 as stated: after a Striped or ParityRotating run over a valid
\* configuration, any two disks differ in load by at most the largest single
\* file routed to either of them.
C1_LoadBalanceAnyPair ==
    (pc = "done" /\ raid \in {"RAID 0", "RAID 5"} /\ ValidConfig) =>
        \A a, b \in Disks :
            Abs(disk_loads[a] - disk_loads[b])
                <= SetMax({MaxRouted(a), MaxRouted(b)})

\* C1 (amended): after a Striped run the bound holds for any two disks; after
\* a ParityRotating run it holds for a heavier disk a and a lighter disk b
\* only when b was not the parity disk of the last file routed to a.
C1_LoadBalanceBound ==
    (pc = "done" /\ raid \in {"RAID 0", "RAID 5"}) =>
        \A a, b \in Disks :
            ( /\ disk_loads[a] >= disk_loads[b]
              /\ \/ raid = "RAID 0"
                 \/ LastRouted(a) = 0
                 \/ assignment[LastRouted(a)].p_disk # b )
            => disk_loads[a] - disk_loads[b]
                   <= SetMax({MaxRouted(a), MaxRouted(b)})

\* a finished ParityRotating run in which a covered pair of disks differs in
\* load, and a pair outside the amended bound exists as well
C1_Witness ==
    /\ pc = "done" /\ raid = "RAID 5" /\ num >= 3 /\ Len(files) >= 3
    /\ \E a, b \in Disks :
          /\ disk_loads[a] > disk_loads[b]
          /\ LastRouted(a) # 0
          /\ assignment[LastRouted(a)].p_disk # b
    /\ \E a, b \in Disks :
          /\ disk_loads[a] > disk_loads[b]
          /\ LastRouted(a) # 0
          /\ assignment[LastRouted(a)].p_disk = b

(***************************************************************************)
(* C2. Four files of 100 bytes on four ParityRotating disks.               *)
(***************************************************************************)
C2_Case ==
    /\ pc = "done" /\ raid = "RAID 5" /\ num = 4
    /\ Len(files) = 4 /\ AllOfSize(100)

\* C2 as stated: every disk is the parity disk once, receives 3 data
\* placements and ends with a load of 300 bytes.
C2_ThreePlacementsEach ==
    C2_Case =>
        \A d \in Disks :
            /\ Cardinality(ParityOf(d)) = 1
            /\ Cardinality(RoutedTo(d)) = 3
            /\ disk_loads[d] = 300

\* C2 (amended): every disk is the parity disk once, receives exactly one
\* data placement of 100 bytes and ends with a load of 100 bytes.
C2_OnePlacementEach ==
    C2_Case =>
        \A d \in Disks :
            /\ Cardinality(ParityOf(d)) = 1
            /\ Cardinality(RoutedTo(d)) = 1
            /\ disk_loads[d] = 100

C2_Witness == C2_Case /\ Len(assignment) = 4

(***************************************************************************)
(* C3. Parity rotation.                                                    *)
(***************************************************************************)
\* C3: under ParityRotating the parity disk of the file at 0-based position
\* i is i mod num whatever the loads are, and the file's data never goes to
\* that disk.
C3_ParityRotation ==
    (raid = "RAID 5" /\ Running) =>
        \A i \in Processed :
            /\ assignment[i].p_disk = (i - 1) % num
            /\ Len(assignment[i].targets) = 1
            /\ assignment[i].targets[1] # (i - 1) % num
            /\ assignment[i].targets[1] \in Disks

\* a ParityRotating run whose rotation wrapped around, with unequal loads
C3_Witness ==
    /\ raid = "RAID 5" /\ num = 3 /\ pc = "done" /\ Len(assignment) = 4
    /\ \E a, b \in Disks : disk_loads[a] # disk_loads[b]

(***************************************************************************)
(* C4. Parity rotation completeness.                                       *)
(***************************************************************************)
\* C4: in every window of num consecutive files, every disk is the parity
\* disk exactly once.
C4_RotationComplete ==
    (raid = "RAID 5" /\ Running /\ num >= 1) =>
        \A s \in 1..(Len(assignment) - num + 1) :
            \A d \in Disks :
                Cardinality({ i \in s..(s + num - 1) : assignment[i].p_disk = d }) = 1

\* a run with two overlapping windows, the second starting past position 0
C4_Witness ==
    raid = "RAID 5" /\ num = 3 /\ Len(assignment) = 4 /\ pc = "done"

(***************************************************************************)
(* C5. Mirrored completeness.                                              *)
(***************************************************************************)
\* C5: under Mirrored, for any file list, every processed file has every
\* disk as a target exactly once, every disk holds the file (its own copy,
\* under its name), and every disk's load is the sum of the sizes of the
\* processed files.
C5_MirroredComplete ==
    (raid = "RAID 1" /\ Running) =>
        /\ \A i \in Processed :
              /\ Len(assignment[i].targets) = num
              /\ TargetSet(i) = Disks
              /\ \A d \in Disks :
                    /\ FileName(files[i]) \in DOMAIN disks[d]
                    /\ disks[d][FileName(files[i])].src = PathOf(files[i])
        /\ \A d \in Disks : disk_loads[d] = SumSizes(idx)

(***************************************************************************)
(* C6. Greedy target selection.                                            *)
(***************************************************************************)
EligibleDisks == IF raid = "RAID 5" THEN Disks \ {idx % num} ELSE Disks

\* C6: every Striped or ParityRotating step picks, among all disks (all but
\* the file's parity disk under ParityRotating), the disk of minimum load
\* with the lowest index, and only that disk's load grows, by the file size.
C6_GreedyTarget ==
    [][ (pc = "loop" /\ idx' = idx + 1 /\ raid # "RAID 1") =>
          LET t == assignment'[idx'].targets[1]
          IN  /\ Len(assignment'[idx'].targets) = 1
              /\ t \in EligibleDisks
              /\ \A c \in EligibleDisks : disk_loads[t] <= disk_loads[c]
              /\ \A c \in EligibleDisks :
                    disk_loads[c] = disk_loads[t] => t <= c
              /\ disk_loads' =
                    [disk_loads EXCEPT ![t] = @ + files[idx'].size]
      ]_vars

\* a ParityRotating step that had to break a tie: disks 1 and 2 are both
\* empty for the first file, whose parity disk is 0, and disk 1 is taken;
\* later a loaded disk is passed over for an emptier one
C6_Witness ==
    /\ raid = "RAID 5" /\ num = 3 /\ Len(assignment) = 4
    /\ assignment[1].targets = <<1>>
    /\ assignment[4].targets = <<2>>

(***************************************************************************)
(* C7. Same-size batches under Striped.                                    *)
(***************************************************************************)
\* C7: after a Striped run over files that all have the same size, the
\* largest and the smallest disk load differ by at most that size.
C7_SameSizeSpread ==
    \A s \in Sizes :
        (pc = "done" /\ raid = "RAID 0" /\ num >= 1 /\ AllOfSize(s)) =>
            SetMax({ disk_loads[d] : d \in Disks })
              - SetMin({ disk_loads[d] : d \in Disks }) <= s

\* four files of one size striped over three disks: loads 2s, s, s
C7_Witness ==
    /\ pc = "done" /\ raid = "RAID 0" /\ num = 3 /\ Len(files) = 4
    /\ AllOfSize(100)
    /\ disk_loads[0] = 200 /\ disk_loads[2] = 100

(***************************************************************************)
(* C8. Determinism.                                                        *)
(***************************************************************************)
\* C8: a second run on the same RAID level, disk count and file list ends
\* as the first did: same targets and parity disk for every file, same
\* loads, same folder contents.
C8_Deterministic ==
    (/\ prev # NoRun
     /\ pc \in {"done", "error"}
     /\ prev.num = num
     /\ prev.files = files) => Outcome = prev

\* a second ParityRotating run has finished
C8_Witness ==
    /\ prev # NoRun /\ pc = "done" /\ raid = "RAID 5" /\ num >= 3
    /\ prev.num = num /\ prev.files = files
    /\ Len(assignment) >= 3

(***************************************************************************)
(* C9. Invalid configurations.                                             *)
(***************************************************************************)
\* C9: with fewer than 2 disks, or fewer than 3 under ParityRotating, the
\* call fails before any file is processed: nothing is placed, no load
\* changes, and the call does not return normally.
C9_RejectsInvalidConfig ==
    (~ValidConfig /\ files # << >>) =>
        /\ pc # "done"
        /\ assignment = << >>
        /\ \A d \in DOMAIN disk_loads : disk_loads[d] = 0

(***************************************************************************)
(* C10. Parity markers.                                                    *)
(***************************************************************************)
MarkerOn(d, f) ==
    IF ParityName(f) \in DOMAIN disks[d] THEN disks[d][ParityName(f)]
    ELSE [kind |-> "none"]

\* C10: after a ParityRotating run over a valid configuration, the file at
\* 0-based position i has a parity marker on disk i mod num, and the marker
\* names the file and the disk its data was placed on.  Stated for the files
\* whose name no other file of the list has, which a marker identifies
\* without ambiguity.
C10_MarkerNamesDataDisk ==
    (pc = "done" /\ raid = "RAID 5" /\ ValidConfig) =>
        \A i \in Processed :
            NameUnique(i) =>
                LET m == MarkerOn((i - 1) % num, files[i])
                IN  /\ m.kind = "parity"
                    /\ m.for = FileName(files[i])
                    /\ m.dataDisk = assignment[i].targets[1]

\* ======================================================================
\* Raid_Calculation.py: the capacity and performance calculator
\* ======================================================================
\* The functions are pure. A Python float is modelled as the IEEE-754 double
\* it is: a sign, a mantissa of at most 53 bits and a binary exponent, and
\* every operation rounds its exact result to the nearest double, ties to
\* even. Every expression is evaluated in the order the code evaluates it;
\* Python compares int and float by value, so an int result is the double of
\* the same value.

\* largest disk count passed to a calculator function
MaxCalcDisks == 8

\* longest raid_levels list passed to compare_raid_efficiency
MaxLevels == 3

CalcDiskCounts == 0 .. MaxCalcDisks

\* the three supported levels and one the functions do not know
CalcLevels == RaidLevels \cup { "RAID 6" }

\* total_bytes arguments of calculate_storage_overhead
TotalBytes == { 0, 29, 1000, 4096 }

\* bytes per megabyte in estimate_access_time
MiB == 1024 * 1024

\* file_size_bytes arguments of estimate_access_time
FileSizes == { 0, 1000, MiB }

\* base_transfer_rate_mbps arguments (100 is the default)
Rates == { 50, 100 }

\* a Python float is an IEEE-754 double: 53 bits of mantissa
MantissaBits == 53

\* the mantissa is kept as a natural number in base Limb, lowest limb first
\* and without high zero limbs; 0 is << >>
Limb == 32768

\* the bits of one limb
LimbBits == 15

\* the element of a set of one element. { e : x \in { a } } is e with x the
\* value of a, computed once however often e uses it.
The(S) == CHOOSE r \in S : TRUE

RECURSIVE Pow2(_)
Pow2(k) == IF k = 0 THEN 1 ELSE 2 * Pow2(k - 1)

\* the limbs 1 .. n of x without the high zero limbs
RECURSIVE BTrimTo(_, _)
BTrimTo(x, n) ==
    IF n = 0 THEN << >>
    ELSE IF x[n] # 0 THEN SubSeq(x, 1, n)
    ELSE BTrimTo(x, n - 1)

BTrim(x) == The({ BTrimTo(u, Len(u)) : u \in { x } })

\* the natural number i
RECURSIVE BOfInt(_)
BOfInt(i) == IF i = 0 THEN << >> ELSE << i % Limb >> \o BOfInt(i \div Limb)

BLimb(x, i) == IF i <= Len(x) THEN x[i] ELSE 0

RECURSIVE BAddFrom(_, _, _, _)
BAddFrom(x, y, i, carry) ==
    IF i > Len(x) /\ i > Len(y)
    THEN IF carry = 0 THEN << >> ELSE << carry >>
    ELSE The({ << s % Limb >> \o BAddFrom(x, y, i + 1, s \div Limb) :
                   s \in { BLimb(x, i) + BLimb(y, i) + carry } })

BAdd(x, y) == The({ BAddFrom(u, v, 1, 0) : u \in { x }, v \in { y } })

RECURSIVE BSubFrom(_, _, _, _)
BSubFrom(x, y, i, borrow) ==
    IF i > Len(x) THEN << >>
    ELSE The({ << (s + Limb) % Limb >>
                   \o BSubFrom(x, y, i + 1, IF s < 0 THEN 1 ELSE 0) :
                   s \in { x[i] - BLimb(y, i) - borrow } })

\* x - y for x >= y
BSub(x, y) == The({ BTrim(BSubFrom(u, v, 1, 0)) : u \in { x }, v \in { y } })

RECURSIVE BCmpFrom(_, _, _)
BCmpFrom(x, y, i) ==
    IF i = 0 THEN 0
    ELSE IF x[i] < y[i] THEN -1
    ELSE IF x[i] > y[i] THEN 1
    ELSE BCmpFrom(x, y, i - 1)

\* -1, 0 or 1 as x is below, equal to or above y
BCmp(x, y) ==
    The({ IF Len(u) < Len(v) THEN -1
          ELSE IF Len(u) > Len(v) THEN 1
          ELSE BCmpFrom(u, v, Len(u)) : u \in { x }, v \in { y } })

RECURSIVE BMulSmallFrom(_, _, _, _)
BMulSmallFrom(x, k, i, carry) ==
    IF i > Len(x) THEN IF carry = 0 THEN << >> ELSE << carry >>
    ELSE The({ << p % Limb >> \o BMulSmallFrom(x, k, i + 1, p \div Limb) :
                   p \in { x[i] * k + carry } })

\* x * k for 0 <= k < Limb
BMulSmall(x, k) ==
    The({ BTrim(BMulSmallFrom(u, j, 1, 0)) : u \in { x }, j \in { k } })

RECURSIVE BMul(_, _)
BMul(x, y) ==
    The({ IF u = << >> \/ v = << >> THEN << >>
          ELSE BTrim(BAdd(BMulSmall(u, v[1]), << 0 >> \o BMul(u, Tail(v)))) :
              u \in { x }, v \in { y } })

\* quotient and remainder of the limbs i, i - 1, .. 1 of x by k, after the
\* remainder r of the higher limbs, whose quotient is q
RECURSIVE BDivSmallFrom(_, _, _, _, _)
BDivSmallFrom(x, k, i, r, q) ==
    IF i = 0 THEN [ q |-> q, r |-> r ]
    ELSE The({ BDivSmallFrom(x, k, i - 1, cur % k, << cur \div k >> \o q) :
                   cur \in { r * Limb + x[i] } })

\* x divided by k for 0 < k < Limb
BDivSmall(x, k) ==
    The({ [ q |-> BTrim(d.q), r |-> BOfInt(d.r) ] :
              d \in { BDivSmallFrom(x, k, Len(x), 0, << >>) } })

\* x * 2^k
BShl(x, k) ==
    The({ IF u = << >> THEN u
          ELSE [ i \in 1 .. (j \div LimbBits) |-> 0 ]
                   \o BMulSmall(u, Pow2(j % LimbBits)) :
              u \in { x }, j \in { k } })

\* x \div 2^k
BShr(x, k) ==
    The({ IF j \div LimbBits >= Len(u) THEN << >>
          ELSE BDivSmall(SubSeq(u, j \div LimbBits + 1, Len(u)),
                         Pow2(j % LimbBits)).q :
              u \in { x }, j \in { k } })

RECURSIVE BitLen(_)
BitLen(k) == IF k = 0 THEN 0 ELSE 1 + BitLen(k \div 2)

\* the number of bits of x
BBitLen(x) ==
    The({ IF u = << >> THEN 0
          ELSE LimbBits * (Len(u) - 1) + BitLen(u[Len(u)]) : u \in { x } })

\* 2 * x + bit
BDouble(x, bit) == The({ BTrim(BAddFrom(u, u, 1, bit)) : u \in { x } })

\* long division by y of the bits j, j - 1, .. 0 of one limb, after the
\* remainder r of the higher bits; q collects the bits of the quotient
RECURSIVE BDivLimb(_, _, _, _, _)
BDivLimb(r, y, limb, j, q) ==
    IF j < 0 THEN [ q |-> q, r |-> r ]
    ELSE The({ IF BCmp(r2, y) >= 0
               THEN BDivLimb(BSub(r2, y), y, limb, j - 1, 2 * q + 1)
               ELSE BDivLimb(r2, y, limb, j - 1, 2 * q) :
                   r2 \in { BDouble(r, (limb \div Pow2(j)) % 2) } })

\* long division by y of the limbs i, i - 1, .. 1 of x, after the
\* remainder r of the higher limbs, whose quotient is q
RECURSIVE BDivLong(_, _, _, _, _)
BDivLong(x, y, i, r, q) ==
    IF i = 0 THEN [ q |-> q, r |-> r ]
    ELSE The({ BDivLong(x, y, i - 1, d.r, << d.q >> \o q) :
                   d \in { BDivLimb(r, y, x[i], LimbBits - 1, 0) } })

\* quotient and remainder of x by y, y # 0
BDivMod(x, y) ==
    The({ IF Len(v) = 1 THEN BDivSmall(u, v[1])
          ELSE The({ [ q |-> BTrim(d.q), r |-> d.r ] :
                         d \in { BDivLong(u, v, Len(u), << >>, << >>) } }) :
              u \in { x }, v \in { y } })

\* the float 0.0; Python compares 0.0 and -0.0 equal, and both are this value
Zero == [ s |-> 0, m |-> << >>, e |-> 0 ]

RECURSIVE TrailingZeros(_)
TrailingZeros(k) == IF k % 2 = 1 THEN 0 ELSE 1 + TrailingZeros(k \div 2)

\* the float (-1)^s * m * 2^e, written with an odd mantissa, so that two
\* floats are equal exactly when they are the same record
RECURSIVE Canon(_, _, _)
Canon(s, m, e) ==
    The({ IF u = << >> THEN Zero
          ELSE IF u[1] = 0 THEN Canon(s, Tail(u), x + LimbBits)
          ELSE The({ [ s |-> s, m |-> BShr(u, z), e |-> x + z ] :
                         z \in { TrailingZeros(u[1]) } }) :
              u \in { m }, x \in { e } })

\* the rounding of a mantissa m of len > MantissaBits bits: q1 is m without
\* its low bits but one, the guard bit
RoundGuard(s, m, e, sticky, shift, q1) ==
    The({ Canon(s,
                IF q1[1] % 2 = 1
                      /\ (sticky \/ q[1] % 2 = 1 \/ BShl(q1, shift - 1) # m)
                THEN BAdd(q, << 1 >>) ELSE q,
                e + shift) : q \in { BShr(q1, 1) } })

\* the double nearest to (-1)^s * (m + f) * 2^e, ties to the even mantissa,
\* where f is 0, or a fraction strictly between 0 and 1 when sticky is TRUE
\* (and then m has more than MantissaBits bits). The values of the calculator
\* are far from the largest and the smallest double, so there is neither
\* overflow nor a subnormal result.
Round(s, m, e, sticky) ==
    The({ IF len <= MantissaBits THEN Canon(s, u, e)
          ELSE The({ RoundGuard(s, u, e, sticky, len - MantissaBits, q1) :
                         q1 \in { BShr(u, len - MantissaBits - 1) } }) :
              u \in { m }, len \in { BBitLen(m) } })

\* the float of a Python int below 2^31 in size
Float(i) == The({ Canon(IF j < 0 THEN 1 ELSE 0, BOfInt(Abs(j)), 0) : j \in { i } })

\* the sum of the floats x and y
FAddValues(x, y, e) ==
    The({ IF x.s = y.s THEN Round(x.s, BAdd(u, v), e, FALSE)
          ELSE IF BCmp(u, v) >= 0 THEN Round(x.s, BSub(u, v), e, FALSE)
          ELSE Round(y.s, BSub(v, u), e, FALSE) :
              u \in { BShl(x.m, x.e - e) }, v \in { BShl(y.m, y.e - e) } })

FAdd(a, b) ==
    The({ FAddValues(x, y, IF x.e < y.e THEN x.e ELSE y.e) :
              x \in { a }, y \in { b } })

FSub(a, b) == The({ FAdd(a, [ y EXCEPT !.s = 1 - @ ]) : y \in { b } })

FMul(a, b) ==
    The({ Round((x.s + y.s) % 2, BMul(x.m, y.m), x.e + y.e, FALSE) :
              x \in { a }, y \in { b } })

\* the quotient of the mantissas m and n, m first multiplied by 2^k, rounded
QuotientOf(s, m, n, e, k) ==
    The({ Round(s, d.q, e - k, d.r # << >>) :
              d \in { BDivMod(BShl(m, k), n) } })

\* the number of bits to add to m for a quotient by n of at least
\* MantissaBits + 3 bits
QuotientShift(m, n) ==
    The({ IF need > 0 THEN need ELSE 0 :
              need \in { MantissaBits + 3 + BBitLen(n) - BBitLen(m) } })

\* a / b for b # 0: the quotient of the mantissas is taken with at least
\* MantissaBits + 3 bits, and a remainder makes the result inexact
FDiv(a, b) ==
    The({ IF x.m = << >> THEN Zero
          ELSE QuotientOf((x.s + y.s) % 2, x.m, y.m, x.e - y.e,
                          QuotientShift(x.m, y.m)) :
              x \in { a }, y \in { b } })

\* the float a Python literal denotes: the double nearest to
\* digits * 10^exp10, the digits given in groups of four, highest first
RECURSIVE DecimalDigits(_, _)
DecimalDigits(groups, i) ==
    IF i = 0 THEN << >>
    ELSE BAdd(BMulSmall(DecimalDigits(groups, i - 1), 10000),
              BOfInt(groups[i]))

RECURSIVE Pow10(_)
Pow10(k) == IF k = 0 THEN << 1 >> ELSE BMulSmall(Pow10(k - 1), 10)

Literal(groups, exp10) ==
    The({ IF exp10 >= 0 THEN Round(0, BMul(n, Pow10(exp10)), 0, FALSE)
          ELSE IF n = << >> THEN Zero
          ELSE The({ QuotientOf(0, n, den, 0, QuotientShift(n, den)) :
                         den \in { Pow10(0 - exp10) } }) :
              n \in { DecimalDigits(groups, Len(groups)) } })

\* a function returned v
Value(v) == [ kind |-> "value", val |-> v ]

\* a function raised an exception of type t with the message m
Raise(t, m) == [ kind |-> "error", type |-> t, msg |-> m ]

\* a / b as Python evaluates it
PyDiv(a, b) ==
    IF b = Zero THEN Raise("ZeroDivisionError", << "float division by zero" >>)
    ELSE Value(FDiv(a, b))

usable_capacity_percent_ratio(num_disks, raid_level) ==
    IF num_disks < 2
    THEN Raise("ValueError", << "Number of disks must be at least 2" >>)
    ELSE IF raid_level = "RAID 0" THEN Value(Float(100))
    ELSE IF raid_level = "RAID 1"
    THEN Value(FDiv(Float(100), Float(num_disks)))
    ELSE IF raid_level = "RAID 5"
    THEN IF num_disks < 3
         THEN Raise("ValueError", << "RAID 5 requires at least 3 disks" >>)
         ELSE Value(FDiv(Float(num_disks - 1), Float(num_disks)))
    ELSE Raise("ValueError", << "Unsupported RAID level: ", raid_level >>)

usable_capacity_percent(num_disks, raid_level) ==
    IF num_disks < 2
    THEN Raise("ValueError", << "Number of disks must be at least 2" >>)
    ELSE IF raid_level = "RAID 0" THEN Value(Float(100))
    ELSE IF raid_level = "RAID 1"
    THEN Value(FDiv(Float(100), Float(num_disks)))
    ELSE IF raid_level = "RAID 5"
    THEN IF num_disks < 3
         THEN Raise("ValueError", << "RAID 5 requires at least 3 disks" >>)
         ELSE Value(FMul(FDiv(Float(num_disks - 1), Float(num_disks)),
                         Float(100)))
    ELSE Raise("ValueError", << "Unsupported RAID level: ", raid_level >>)

redundancy_percent_of_ratio(num_disks, raid_level) ==
    LET u == usable_capacity_percent(num_disks, raid_level)
    IN  IF u.kind = "error" THEN u ELSE Value(FSub(Float(1), u.val))

redundancy_percent(num_disks, raid_level) ==
    LET u == usable_capacity_percent(num_disks, raid_level)
    IN  IF u.kind = "error" THEN u ELSE Value(FSub(Float(100), u.val))

\* the percentage is returned as it is
space_efficiency_percent(num_disks, raid_level) ==
    usable_capacity_percent(num_disks, raid_level)

space_efficiency(num_disks, raid_level) ==
    LET u == usable_capacity_percent(num_disks, raid_level)
    IN  IF u.kind = "error" THEN u ELSE Value(FDiv(u.val, Float(100)))

StorageOverhead_swapped(usable, parity, mirror, total, ratio) ==
    [ usable_bytes         |-> usable,
      parity_bytes         |-> mirror,
      mirror_bytes         |-> parity,
      total_required_bytes |-> total,
      efficiency_ratio     |-> ratio ]

StorageOverhead_noparity(usable, parity, mirror, total, ratio) ==
    [ usable_bytes         |-> usable,
      parity_bytes         |-> Float(0),
      mirror_bytes         |-> mirror,
      total_required_bytes |-> total,
      efficiency_ratio     |-> ratio ]

\* the dictionary calculate_storage_overhead returns
StorageOverhead(usable, parity, mirror, total, ratio) ==
    [ usable_bytes         |-> usable,
      parity_bytes         |-> parity,
      mirror_bytes         |-> mirror,
      total_required_bytes |-> total,
      efficiency_ratio     |-> ratio ]

\* space_efficiency is called only in the branches that use its result
calculate_storage_overhead_lazy(total_bytes, raid_level, num_disks) ==
    LET efficiency == space_efficiency(num_disks, raid_level)
    IN  IF raid_level = "RAID 0"
        THEN Value(StorageOverhead(Float(total_bytes), Float(0), Float(0),
                                   Float(total_bytes), Float(1)))
        ELSE IF efficiency.kind = "error" THEN efficiency
        ELSE IF raid_level = "RAID 1"
        THEN Value(StorageOverhead(Float(total_bytes), Float(0),
                                   Float(total_bytes * (num_disks - 1)),
                                   Float(total_bytes * num_disks),
                                   efficiency.val))
        ELSE LET parity_bytes == FDiv(Float(total_bytes),
                                      Float(num_disks - 1))
             IN  Value(StorageOverhead(Float(total_bytes), parity_bytes,
                                       Float(0),
                                       FAdd(Float(total_bytes), parity_bytes),
                                       efficiency.val))

calculate_storage_overhead(total_bytes, raid_level, num_disks) ==
    LET efficiency == space_efficiency(num_disks, raid_level)
    IN  IF efficiency.kind = "error" THEN efficiency
        ELSE IF raid_level = "RAID 0"
        THEN Value(StorageOverhead(Float(total_bytes), Float(0), Float(0),
                                   Float(total_bytes), Float(1)))
        ELSE IF raid_level = "RAID 1"
        THEN LET mirror_bytes == Float(total_bytes * (num_disks - 1))
             IN  Value(StorageOverhead(Float(total_bytes), Float(0),
                                       mirror_bytes,
                                       Float(total_bytes * num_disks),
                                       efficiency.val))
        ELSE IF raid_level = "RAID 5"
        THEN LET parity_bytes == FDiv(Float(total_bytes),
                                      Float(num_disks - 1))
             IN  Value(StorageOverhead(Float(total_bytes), parity_bytes,
                                       Float(0),
                                       FAdd(Float(total_bytes), parity_bytes),
                                       efficiency.val))
        ELSE Raise("ValueError", << "Unsupported RAID level: ", raid_level >>)

\* 0.85: the share of the rate left after the parity calculation
ParityEfficiency == Literal(<< 85 >>, -2)

estimate_access_time(file_size_bytes, num_disks, raid_level, base_transfer_rate_mbps) ==
    LET file_size_mb == FDiv(Float(file_size_bytes), Float(MiB))
    IN  IF raid_level = "RAID 0"
        THEN LET effective_rate == Float(base_transfer_rate_mbps * num_disks)
             IN  PyDiv(file_size_mb, effective_rate)
        ELSE IF raid_level = "RAID 1"
        THEN LET write_time ==
                     PyDiv(file_size_mb, Float(base_transfer_rate_mbps))
                 read_time ==
                     PyDiv(file_size_mb,
                           Float(base_transfer_rate_mbps * num_disks))
             IN  IF write_time.kind = "error" THEN write_time
                 ELSE IF read_time.kind = "error" THEN read_time
                 ELSE Value(FDiv(FAdd(write_time.val, read_time.val),
                                 Float(2)))
        ELSE IF raid_level = "RAID 5"
        THEN LET data_disks == num_disks - 1
                 effective_rate ==
                     FMul(Float(base_transfer_rate_mbps * data_disks),
                          ParityEfficiency)
             IN  PyDiv(file_size_mb, effective_rate)
        ELSE PyDiv(file_size_mb, Float(base_transfer_rate_mbps))

calculate_parallel_speedup(num_disks, raid_level) ==
    IF raid_level = "RAID 0" THEN Value(Float(num_disks))
    ELSE IF raid_level = "RAID 1"
    THEN Value(FMul(Float(num_disks), Literal(<< 5 >>, -1)))
    ELSE IF raid_level = "RAID 5"
    THEN Value(FMul(Float(num_disks - 1), ParityEfficiency))
    ELSE Value(Float(1))

fault_tolerance_level_single(raid_level, num_disks) ==
    IF raid_level = "RAID 0" THEN Value(0)
    ELSE IF raid_level = "RAID 1" THEN Value(1)
    ELSE IF raid_level = "RAID 5" THEN Value(1)
    ELSE Value(0)

\* num_disks is an integer here; the default None is not modelled
fault_tolerance_level(raid_level, num_disks) ==
    IF raid_level = "RAID 0" THEN Value(0)
    ELSE IF raid_level = "RAID 1"
    THEN Value(IF num_disks # 0 THEN num_disks - 1 ELSE 1)
    ELSE IF raid_level = "RAID 5" THEN Value(1)
    ELSE Value(0)

\* the dictionary calculate_capacity_breakdown_dict returns
Breakdown(u, p, m) == [ usable |-> u, parity |-> p, mirror |-> m ]

calculate_capacity_breakdown_dict_copies(num_disks, raid_level) ==
    IF raid_level = "RAID 0" THEN Value(Breakdown(num_disks, 0, 0))
    ELSE IF raid_level = "RAID 1" THEN Value(Breakdown(num_disks - 1, 0, 1))
    ELSE IF raid_level = "RAID 5" THEN Value(Breakdown(num_disks - 1, 1, 0))
    ELSE Value(Breakdown(num_disks, 0, 0))

calculate_capacity_breakdown_dict(num_disks, raid_level) ==
    IF raid_level = "RAID 0" THEN Value(Breakdown(num_disks, 0, 0))
    ELSE IF raid_level = "RAID 1" THEN Value(Breakdown(1, 0, num_disks - 1))
    ELSE IF raid_level = "RAID 5" THEN Value(Breakdown(num_disks - 1, 1, 0))
    ELSE Value(Breakdown(num_disks, 0, 0))

\* an optional argument: left out (None) or given
None == [ given |-> FALSE ]
Some(v) == [ given |-> TRUE, value |-> v ]

DefaultLevels == << "RAID 0", "RAID 1", "RAID 5" >>

\* comparison[raid] = entry
Put(comparison, raid_level, entry) ==
    [ k \in DOMAIN comparison \cup { raid_level } |->
        IF k = raid_level THEN entry ELSE comparison[k] ]

\* the body of the try block: the five metrics of one level, or the first
\* exception one of the five calls raises
Metrics(num_disks, raid_level) ==
    LET u == usable_capacity_percent(num_disks, raid_level)
        r == redundancy_percent(num_disks, raid_level)
        e == space_efficiency(num_disks, raid_level)
        s == calculate_parallel_speedup(num_disks, raid_level)
        f == fault_tolerance_level(raid_level, num_disks)
    IN  IF u.kind = "error" THEN u
        ELSE IF r.kind = "error" THEN r
        ELSE IF e.kind = "error" THEN e
        ELSE IF s.kind = "error" THEN s
        ELSE IF f.kind = "error" THEN f
        ELSE Value([ usable_percent     |-> u.val,
                     redundancy_percent |-> r.val,
                     efficiency_ratio   |-> e.val,
                     speedup_factor     |-> s.val,
                     fault_tolerance    |-> f.val ])

\* the loop without the except clause: the first exception ends the call
RECURSIVE CompareLoop_abort(_, _, _, _)
CompareLoop_abort(num_disks, raid_levels, i, comparison) ==
    IF i > Len(raid_levels) THEN Value(comparison)
    ELSE LET raid_level == raid_levels[i]
             m == Metrics(num_disks, raid_level)
         IN  IF m.kind = "value"
             THEN CompareLoop_abort(num_disks, raid_levels, i + 1,
                                    Put(comparison, raid_level, m.val))
             ELSE m

\* the for loop: a ValueError becomes the level's error entry, any other
\* exception leaves the function
RECURSIVE CompareLoop(_, _, _, _)
CompareLoop(num_disks, raid_levels, i, comparison) ==
    IF i > Len(raid_levels) THEN Value(comparison)
    ELSE LET raid_level == raid_levels[i]
             m == Metrics(num_disks, raid_level)
         IN  IF m.kind = "value"
             THEN CompareLoop(num_disks, raid_levels, i + 1,
                              Put(comparison, raid_level, m.val))
             ELSE IF m.type = "ValueError"
             THEN CompareLoop(num_disks, raid_levels, i + 1,
                              Put(comparison, raid_level, [ error |-> m.msg ]))
             ELSE m

compare_raid_efficiency_abort(num_disks, raid_levels) ==
    LET levels == IF raid_levels.given THEN raid_levels.value
                  ELSE DefaultLevels
    IN  CompareLoop_abort(num_disks, levels, 1, << >>)

compare_raid_efficiency(num_disks, raid_levels) ==
    LET levels == IF raid_levels.given THEN raid_levels.value
                  ELSE DefaultLevels
    IN  CompareLoop(num_disks, levels, 1, << >>)

\* the lists of levels of length at most k
RECURSIVE LevelLists(_)
LevelLists(k) ==
    IF k = 0 THEN { << >> }
    ELSE LET shorter == LevelLists(k - 1)
         IN  shorter \cup { Append(l, r) : l \in shorter, r \in CalcLevels }

\* the raid_levels arguments: None, or a list
LevelArgs == { None } \cup { Some(l) : l \in LevelLists(MaxLevels) }

\* ---- the calls a caller can make, and one action per function ----

PairCalls(fn) ==
    { [ fn |-> fn, num_disks |-> n, raid_level |-> r ] :
        n \in CalcDiskCounts, r \in CalcLevels }

OverheadCalls ==
    { [ fn |-> "calculate_storage_overhead", total_bytes |-> t,
        num_disks |-> n, raid_level |-> r ] :
        t \in TotalBytes, n \in CalcDiskCounts, r \in CalcLevels }

AccessTimeCalls ==
    { [ fn |-> "estimate_access_time", file_size_bytes |-> s,
        num_disks |-> n, raid_level |-> r, base_transfer_rate_mbps |-> b ] :
        s \in FileSizes, n \in CalcDiskCounts, r \in CalcLevels, b \in Rates }

CompareCalls ==
    { [ fn |-> "compare_raid_efficiency", num_disks |-> n,
        raid_levels |-> ls ] :
        n \in CalcDiskCounts, ls \in LevelArgs }

Calls ==
    PairCalls("usable_capacity_percent")
        \cup PairCalls("redundancy_percent")
        \cup PairCalls("space_efficiency")
        \cup PairCalls("calculate_parallel_speedup")
        \cup PairCalls("fault_tolerance_level")
        \cup PairCalls("calculate_capacity_breakdown_dict")
        \cup OverheadCalls \cup AccessTimeCalls \cup CompareCalls

\* the call fn(...) has been made and has not returned yet
Pending(fn) == call.fn = fn /\ ret = NoCall

CallUsable ==
    /\ Pending("usable_capacity_percent")
    /\ ret' = usable_capacity_percent(call.num_disks, call.raid_level)
    /\ UNCHANGED << pvars, lvars, avars, call >>

CallRedundancy ==
    /\ Pending("redundancy_percent")
    /\ ret' = redundancy_percent(call.num_disks, call.raid_level)
    /\ UNCHANGED << pvars, lvars, avars, call >>

CallEfficiency ==
    /\ Pending("space_efficiency")
    /\ ret' = space_efficiency(call.num_disks, call.raid_level)
    /\ UNCHANGED << pvars, lvars, avars, call >>

CallOverhead ==
    /\ Pending("calculate_storage_overhead")
    /\ ret' = calculate_storage_overhead(call.total_bytes, call.raid_level,
                                         call.num_disks)
    /\ UNCHANGED << pvars, lvars, avars, call >>

CallAccessTime ==
    /\ Pending("estimate_access_time")
    /\ ret' = estimate_access_time(call.file_size_bytes, call.num_disks,
                                   call.raid_level,
                                   call.base_transfer_rate_mbps)
    /\ UNCHANGED << pvars, lvars, avars, call >>

CallSpeedup ==
    /\ Pending("calculate_parallel_speedup")
    /\ ret' = calculate_parallel_speedup(call.num_disks, call.raid_level)
    /\ UNCHANGED << pvars, lvars, avars, call >>

CallFaultTolerance ==
    /\ Pending("fault_tolerance_level")
    /\ ret' = fault_tolerance_level(call.raid_level, call.num_disks)
    /\ UNCHANGED << pvars, lvars, avars, call >>

CallBreakdown ==
    /\ Pending("calculate_capacity_breakdown_dict")
    /\ ret' = calculate_capacity_breakdown_dict(call.num_disks,
                                                call.raid_level)
    /\ UNCHANGED << pvars, lvars, avars, call >>

CallCompare ==
    /\ Pending("compare_raid_efficiency")
    /\ ret' = compare_raid_efficiency(call.num_disks, call.raid_levels)
    /\ UNCHANGED << pvars, lvars, avars, call >>

\* the module is loaded and a caller is about to apply one function to some
\* arguments; no placement is running
CalcInit ==
    /\ raid = "RAID 0"
    /\ num = 0
    /\ files = << >>
    /\ pc = "idle"
    /\ idx = 0
    /\ disk_loads = << >>
    /\ disks = << >>
    /\ assignment = << >>
    /\ prev = NoRun
    /\ call \in Calls
    /\ ret = NoCall
    /\ LogIdle
    /\ AppIdle

CalcNext ==
    \/ CallUsable
    \/ CallRedundancy
    \/ CallEfficiency
    \/ CallOverhead
    \/ CallAccessTime
    \/ CallSpeedup
    \/ CallFaultTolerance
    \/ CallBreakdown
    \/ CallCompare

CalcSpec == CalcInit /\ [][CalcNext]_vars

\* ---- vocabulary of the calculator claims ----

\* the call fn(...) has returned or raised
Returned(fn) == call.fn = fn /\ ret # NoCall

\* the configurations the capacity model accepts
ValidPair(n, r) == n >= 2 /\ (r = "RAID 5" => n >= 3)

Supported(r) == r \in RaidLevels

\* the call is for one of the three supported levels
SupportedCall == Supported(call.raid_level)

ValidCall == SupportedCall /\ ValidPair(call.num_disks, call.raid_level)

CapacityFunctions ==
    { "usable_capacity_percent", "redundancy_percent", "space_efficiency",
      "calculate_storage_overhead" }

PerformanceFunctions ==
    { "calculate_parallel_speedup", "fault_tolerance_level",
      "estimate_access_time" }

\* the functions that take one raid_level
SchemeFunctions ==
    CapacityFunctions \cup PerformanceFunctions
        \cup { "calculate_capacity_breakdown_dict" }

ReturnedOneOf(fns) == call.fn \in fns /\ ret # NoCall

IsConfigError(r) == r.kind = "error" /\ r.type = "ValueError"

\* |a|
FAbs(a) == The({ [ x EXCEPT !.s = 0 ] : x \in { a } })

\* a < b for two floats, as Python compares them: by their exact values
FLess(a, b) == \E d \in { FSub(a, b) } : d.m # << >> /\ d.s = 1

\* 2^-52, the distance from 1.0 to the next double (sys.float_info.epsilon)
Epsilon == [ s |-> 0, m |-> << 1 >>, e |-> -52 ]

\* x is y up to k rounding errors: |x - y| <= k * 2^-52 * |y|, for k a power
\* of two, which makes the right-hand side exact
Near(x, y, k) ==
    ~FLess(FMul(FMul(FAbs(y), Epsilon), Float(k)), FAbs(FSub(x, y)))

\* C11 as stated: for every valid configuration usable_capacity_percent
\* returns 100 for RAID 0, 100/n for RAID 1 and 100*(n-1)/n for RAID 5, each
\* the float the expression evaluates to.
C11_UsableCapacityValues ==
    (Returned("usable_capacity_percent") /\ ValidCall) =>
        LET n == call.num_disks
        IN  /\ ret.kind = "value"
            /\ call.raid_level = "RAID 0" => ret.val = Float(100)
            /\ call.raid_level = "RAID 1" =>
                  ret.val = FDiv(Float(100), Float(n))
            /\ call.raid_level = "RAID 5" =>
                  ret.val = FDiv(Float(100 * (n - 1)), Float(n))

\* C11: for every valid configuration usable_capacity_percent returns 100
\* for RAID 0 and 100/n for RAID 1, and for RAID 5 a float that is
\* 100*(n-1)/n up to one rounding error (a relative distance of at most
\* 2^-52), because the code divides before it multiplies.
C11_UsableCapacityNear ==
    (Returned("usable_capacity_percent") /\ ValidCall) =>
        LET n == call.num_disks
        IN  /\ ret.kind = "value"
            /\ call.raid_level = "RAID 0" => ret.val = Float(100)
            /\ call.raid_level = "RAID 1" =>
                  ret.val = FDiv(Float(100), Float(n))
            /\ call.raid_level = "RAID 5" =>
                  Near(ret.val, FDiv(Float(100 * (n - 1)), Float(n)), 1)

\* usable_capacity_percent(3, "RAID 5") has returned 66.66666666666666, the
\* double below 100*2/3 = 66.66666666666667
C11_Witness ==
    /\ Returned("usable_capacity_percent")
    /\ call.raid_level = "RAID 5"
    /\ call.num_disks = 3
    /\ ret = Value(Literal(<< 6666, 6666, 6666, 6666 >>, -14))
    /\ FDiv(Float(200), Float(3)) = Literal(<< 6666, 6666, 6666, 6667 >>, -14)

\* C12: usable_capacity_percent raises the configuration error whenever
\* num_disks < 2, or the level is RAID 5 and num_disks < 3; redundancy_percent,
\* space_efficiency and calculate_storage_overhead raise it in exactly the
\* same cases, return a value in every other case of a supported level, and
\* a call that raises returns no value.
C12_CapacityErrorCases ==
    (ReturnedOneOf(CapacityFunctions) /\ SupportedCall) =>
        /\ IsConfigError(ret) <=> ~ValidPair(call.num_disks, call.raid_level)
        /\ ret.kind = "value" <=> ValidPair(call.num_disks, call.raid_level)
        /\ ret.kind = "error" => "val" \notin DOMAIN ret
        /\ ret.kind = usable_capacity_percent(call.num_disks,
                                              call.raid_level).kind

\* calculate_storage_overhead(1000, "RAID 0", 1) has raised the error
C12_Witness ==
    /\ Returned("calculate_storage_overhead")
    /\ call.raid_level = "RAID 0"
    /\ call.num_disks = 1
    /\ call.total_bytes = 1000
    /\ IsConfigError(ret)

\* the entries of a comparison that hold metrics
MetricEntries ==
    IF Returned("compare_raid_efficiency") /\ ret.kind = "value"
    THEN { ret.val[k] : k \in { l \in DOMAIN ret.val :
                                  "error" \notin DOMAIN ret.val[l] } }
    ELSE { }

\* C13: for every valid (num_disks, level) usable_capacity_percent plus
\* redundancy_percent is 100 and space_efficiency is usable_capacity_percent
\* divided by 100, for the functions called alone and for the three values
\* of one entry of compare_raid_efficiency.
C13_CapacityProfileInvariant ==
    /\ (Returned("redundancy_percent") /\ ValidCall) =>
          /\ ret.kind = "value"
          /\ FAdd(usable_capacity_percent(call.num_disks,
                                          call.raid_level).val,
                  ret.val) = Float(100)
    /\ (Returned("space_efficiency") /\ ValidCall) =>
          /\ ret.kind = "value"
          /\ ret.val =
                 FDiv(usable_capacity_percent(call.num_disks,
                                              call.raid_level).val,
                      Float(100))
    /\ \A e \in MetricEntries :
          /\ FAdd(e.usable_percent, e.redundancy_percent) = Float(100)
          /\ e.efficiency_ratio = FDiv(e.usable_percent, Float(100))

\* redundancy_percent(3, "RAID 5") has returned 33.33333333333334, which
\* added to the usable 66.66666666666666 is 100.0
C13_Witness ==
    /\ Returned("redundancy_percent")
    /\ call.raid_level = "RAID 5"
    /\ call.num_disks = 3
    /\ ret = Value(Literal(<< 3333, 3333, 3333, 3334 >>, -14))

\* C14 as stated: for every valid configuration and total_bytes >= 0 the
\* result of calculate_storage_overhead has usable_bytes = total_bytes; RAID 0 has
\* total_required = total_bytes and parity = mirror = 0; RAID 1 has
\* mirror = total_bytes * (n - 1) and total_required = total_bytes * n;
\* RAID 5 has parity * (n - 1) = total_bytes and
\* total_required = total_bytes + parity.
C14_StorageOverheadValues ==
    (Returned("calculate_storage_overhead") /\ ValidCall
        /\ call.total_bytes >= 0) =>
        LET n == call.num_disks
            t == call.total_bytes
        IN  /\ ret.kind = "value"
            /\ ret.val.usable_bytes = Float(t)
            /\ call.raid_level = "RAID 0" =>
                  /\ ret.val.total_required_bytes = Float(t)
                  /\ ret.val.parity_bytes = Float(0)
                  /\ ret.val.mirror_bytes = Float(0)
            /\ call.raid_level = "RAID 1" =>
                  /\ ret.val.mirror_bytes = Float(t * (n - 1))
                  /\ ret.val.total_required_bytes = Float(t * n)
            /\ call.raid_level = "RAID 5" =>
                  /\ FMul(ret.val.parity_bytes, Float(n - 1)) = Float(t)
                  /\ ret.val.total_required_bytes =
                         FAdd(Float(t), ret.val.parity_bytes)

\* C14: for every valid configuration and total_bytes >= 0 the result of
\* calculate_storage_overhead has usable_bytes = total_bytes; RAID 0 has
\* total_required = total_bytes and parity = mirror = 0; RAID 1 has
\* mirror = total_bytes * (n - 1) and total_required = total_bytes * n;
\* RAID 5 has parity = total_bytes / (n - 1), a float, so that
\* parity * (n - 1) is total_bytes up to one rounding error (a relative
\* distance of at most 2^-52), and total_required = total_bytes + parity.
C14_StorageOverheadNear ==
    (Returned("calculate_storage_overhead") /\ ValidCall
        /\ call.total_bytes >= 0) =>
        LET n == call.num_disks
            t == call.total_bytes
        IN  /\ ret.kind = "value"
            /\ ret.val.usable_bytes = Float(t)
            /\ call.raid_level = "RAID 0" =>
                  /\ ret.val.total_required_bytes = Float(t)
                  /\ ret.val.parity_bytes = Float(0)
                  /\ ret.val.mirror_bytes = Float(0)
            /\ call.raid_level = "RAID 1" =>
                  /\ ret.val.mirror_bytes = Float(t * (n - 1))
                  /\ ret.val.total_required_bytes = Float(t * n)
            /\ call.raid_level = "RAID 5" =>
                  /\ ret.val.parity_bytes = FDiv(Float(t), Float(n - 1))
                  /\ Near(FMul(ret.val.parity_bytes, Float(n - 1)),
                          Float(t), 1)
                  /\ ret.val.total_required_bytes =
                         FAdd(Float(t), ret.val.parity_bytes)

\* calculate_storage_overhead(29, "RAID 5", 8): parity 4.142857142857143,
\* which times 7 is 29.000000000000004
C14_Witness ==
    /\ Returned("calculate_storage_overhead")
    /\ call.raid_level = "RAID 5"
    /\ call.num_disks = 8
    /\ call.total_bytes = 29
    /\ ret.kind = "value"
    /\ ret.val.parity_bytes = Literal(<< 4142, 8571, 4285, 7143 >>, -15)
    /\ FMul(ret.val.parity_bytes, Float(7)) =
           Literal(<< 2, 9000, 0, 0, 4 >>, -15)

\* C15 as stated: in every result of calculate_storage_overhead exactly one
\* of parity_bytes and mirror_bytes is non-zero.
C15_ExactlyOneNonZero ==
    (Returned("calculate_storage_overhead") /\ ret.kind = "value") =>
        (ret.val.parity_bytes # Float(0)) # (ret.val.mirror_bytes # Float(0))

\* C15: in every result of calculate_storage_overhead at most one of
\* parity_bytes and mirror_bytes is non-zero: both are zero for RAID 0 and
\* for total_bytes = 0; otherwise mirror_bytes alone is non-zero for RAID 1
\* and parity_bytes alone for RAID 5.
C15_AtMostOneNonZero ==
    (Returned("calculate_storage_overhead") /\ ret.kind = "value") =>
        LET parity == ret.val.parity_bytes # Float(0)
            mirror == ret.val.mirror_bytes # Float(0)
            some   == call.total_bytes # 0
        IN  /\ ~(parity /\ mirror)
            /\ call.raid_level = "RAID 0" => ~parity /\ ~mirror
            /\ call.raid_level = "RAID 1" => ~parity /\ (mirror <=> some)
            /\ call.raid_level = "RAID 5" => ~mirror /\ (parity <=> some)

\* calculate_storage_overhead(1000, "RAID 0", 2): parity and mirror both 0
C15_Witness ==
    /\ Returned("calculate_storage_overhead")
    /\ call.raid_level = "RAID 0"
    /\ call.num_disks = 2
    /\ call.total_bytes = 1000
    /\ ret.kind = "value"
    /\ ret.val.parity_bytes = Float(0)
    /\ ret.val.mirror_bytes = Float(0)

\* C16: calculate_parallel_speedup, fault_tolerance_level and
\* estimate_access_time raise the configuration error for every
\* (num_disks, level) the capacity model rejects (num_disks < 2, or RAID 5
\* with num_disks < 3) and return no value.
C16_PerformanceRejectsInvalid ==
    (ReturnedOneOf(PerformanceFunctions) /\ SupportedCall
        /\ ~ValidPair(call.num_disks, call.raid_level)) =>
        IsConfigError(ret)

\* C17: every function that takes a level raises an error for a level other
\* than RAID 0, RAID 1 and RAID 5, and returns no default result for it
\* (the disk counts are those every supported level accepts)
C17_UnsupportedRejected ==
    (ReturnedOneOf(SchemeFunctions) /\ ~SupportedCall
        /\ call.num_disks >= 3) => ret.kind = "error"

\* C18: for every disk count n >= 1 fault_tolerance_level returns 0 for
\* RAID 0, n - 1 for RAID 1 and 1 for RAID 5.
C18_FaultToleranceValues ==
    (Returned("fault_tolerance_level") /\ SupportedCall
        /\ call.num_disks >= 1) =>
        /\ call.raid_level = "RAID 0" => ret = Value(0)
        /\ call.raid_level = "RAID 1" => ret = Value(call.num_disks - 1)
        /\ call.raid_level = "RAID 5" => ret = Value(1)

\* fault_tolerance_level("RAID 1", 4) has returned 3
C18_Witness ==
    /\ Returned("fault_tolerance_level")
    /\ call.raid_level = "RAID 1"
    /\ call.num_disks = 4
    /\ ret = Value(3)

\* C19: calculate_capacity_breakdown_dict(n, level) returns the disk counts
\* (usable, parity, mirror) = (n, 0, 0) for RAID 0, (1, 0, n - 1) for RAID 1
\* and (n - 1, 1, 0) for RAID 5, and the three counts sum to n.
C19_BreakdownValues ==
    (Returned("calculate_capacity_breakdown_dict") /\ SupportedCall) =>
        LET n == call.num_disks
        IN  /\ ret.kind = "value"
            /\ call.raid_level = "RAID 0" => ret.val = Breakdown(n, 0, 0)
            /\ call.raid_level = "RAID 1" => ret.val = Breakdown(1, 0, n - 1)
            /\ call.raid_level = "RAID 5" => ret.val = Breakdown(n - 1, 1, 0)
            /\ ret.val.usable + ret.val.parity + ret.val.mirror = n

\* calculate_capacity_breakdown_dict(4, "RAID 1") has returned (1, 0, 3)
C19_Witness ==
    /\ Returned("calculate_capacity_breakdown_dict")
    /\ call.raid_level = "RAID 1"
    /\ call.num_disks = 4
    /\ ret = Value(Breakdown(1, 0, 3))

\* the levels a call of compare_raid_efficiency asks for
Requested ==
    LET ls == IF call.raid_levels.given THEN call.raid_levels.value
              ELSE DefaultLevels
    IN  { ls[i] : i \in DOMAIN ls }

MetricKeys ==
    { "usable_percent", "redundancy_percent", "efficiency_ratio",
      "speedup_factor", "fault_tolerance" }

\* C20: compare_raid_efficiency(n, levels) returns an entry for every
\* requested level and for no other; a level whose configuration is invalid
\* gets only an error entry, and every other requested level gets its five
\* metrics, each the value the metric's function returns for (n, level).
C20_CompareIsolatesFailures ==
    Returned("compare_raid_efficiency") =>
        LET n == call.num_disks
        IN  /\ ret.kind = "value"
            /\ DOMAIN ret.val = Requested
            /\ \A l \in Requested :
                  IF Supported(l) /\ ValidPair(n, l)
                  THEN /\ DOMAIN ret.val[l] = MetricKeys
                       /\ Value(ret.val[l].usable_percent) =
                              usable_capacity_percent(n, l)
                       /\ Value(ret.val[l].redundancy_percent) =
                              redundancy_percent(n, l)
                       /\ Value(ret.val[l].efficiency_ratio) =
                              space_efficiency(n, l)
                       /\ Value(ret.val[l].speedup_factor) =
                              calculate_parallel_speedup(n, l)
                       /\ Value(ret.val[l].fault_tolerance) =
                              fault_tolerance_level(l, n)
                  ELSE DOMAIN ret.val[l] = { "error" }

\* compare_raid_efficiency(2, ["RAID 5", "RAID 0"]): RAID 5 holds only an
\* error, RAID 0 holds its metrics
C20_Witness ==
    /\ Returned("compare_raid_efficiency")
    /\ call.num_disks = 2
    /\ call.raid_levels = Some(<< "RAID 5", "RAID 0" >>)
    /\ ret.kind = "value"
    /\ DOMAIN ret.val["RAID 5"] = { "error" }
    /\ ret.val["RAID 0"].usable_percent = Float(100)
    /\ ret.val["RAID 0"].speedup_factor = Float(2)

\* the time estimate_access_time returns for the arguments of the current
\* call with the level replaced by r
TimeFor(r) ==
    estimate_access_time(call.file_size_bytes, call.num_disks, r,
                         call.base_transfer_rate_mbps).val

\* an estimate_access_time call for a file of positive size on n >= 3 disks
C24_Case ==
    /\ Returned("estimate_access_time")
    /\ SupportedCall
    /\ call.num_disks >= 3
    /\ call.file_size_bytes > 0

\* C24: for the same file size, disk count n >= 3 and base rate,
\* estimate_access_time ranks RAID 0 fastest, RAID 1 moderate and RAID 5
\* slowest: time(RAID 0) < time(RAID 1) < time(RAID 5).
C24_Raid5Slowest ==
    C24_Case =>
        /\ FLess(TimeFor("RAID 0"), TimeFor("RAID 1"))
        /\ FLess(TimeFor("RAID 1"), TimeFor("RAID 5"))

\* C30 as stated: for every valid configuration and total_bytes > 0 the
\* result of calculate_storage_overhead satisfies
\* efficiency_ratio * total_required_bytes = usable_bytes and
\* total_required_bytes = usable_bytes + parity_bytes + mirror_bytes.
C30_OverheadConsistent ==
    (Returned("calculate_storage_overhead") /\ ValidCall
        /\ call.total_bytes > 0) =>
        /\ ret.kind = "value"
        /\ FMul(ret.val.efficiency_ratio, ret.val.total_required_bytes) =
               ret.val.usable_bytes
        /\ ret.val.total_required_bytes =
               FAdd(FAdd(ret.val.usable_bytes, ret.val.parity_bytes),
                    ret.val.mirror_bytes)

\* C30: for every valid configuration and total_bytes > 0 the result of
\* calculate_storage_overhead satisfies
\* total_required_bytes = usable_bytes + parity_bytes + mirror_bytes, and
\* efficiency_ratio * total_required_bytes is usable_bytes up to two
\* rounding errors (a relative distance of at most 2^-51): the ratio and the
\* total are rounded separately.
C30_OverheadNearlyConsistent ==
    (Returned("calculate_storage_overhead") /\ ValidCall
        /\ call.total_bytes > 0) =>
        /\ ret.kind = "value"
        /\ Near(FMul(ret.val.efficiency_ratio, ret.val.total_required_bytes),
                ret.val.usable_bytes, 2)
        /\ ret.val.total_required_bytes =
               FAdd(FAdd(ret.val.usable_bytes, ret.val.parity_bytes),
                    ret.val.mirror_bytes)

\* calculate_storage_overhead(1000, "RAID 1", 3): ratio 0.33333333333333337
\* and total 3000, whose product is 1000.0000000000001
C30_Witness ==
    /\ Returned("calculate_storage_overhead")
    /\ call.raid_level = "RAID 1"
    /\ call.num_disks = 3
    /\ call.total_bytes = 1000
    /\ ret.kind = "value"
    /\ ret.val.efficiency_ratio =
           Literal(<< 3, 3333, 3333, 3333, 3337 >>, -17)
    /\ ret.val.total_required_bytes = Float(3000)
    /\ FMul(ret.val.efficiency_ratio, ret.val.total_required_bytes) =
           Literal(<< 1, 0, 0, 0, 1 >>, -13)

\* ======================================================================
\* build_virtual_disks: conservation of load and of files
\* ======================================================================

\* the sum of the loads of the disks 0 .. n - 1
RECURSIVE LoadSum(_, _)
LoadSum(loads, n) ==
    IF n <= 0 THEN 0 ELSE loads[n - 1] + LoadSum(loads, n - 1)

\* the disks whose load a step changes
Changed == { d \in Disks : disk_loads'[d] # disk_loads[d] }

\* one step of the loop: the file at 0-based position idx is processed
ItemStep == pc = "loop" /\ idx' = idx + 1

\* what C25 says of one step: a Striped or ParityRotating file is counted on
\* exactly one disk and not on its parity disk; a Mirrored file on every disk
C25_Step ==
    ItemStep =>
        LET size == getsize(files[idx + 1])
        IN  /\ raid \in {"RAID 0", "RAID 5"} =>
                  /\ LoadSum(disk_loads', num) = LoadSum(disk_loads, num) + size
                  /\ size > 0 => Cardinality(Changed) = 1
                  /\ \A d \in Disks \ Changed : disk_loads'[d] = disk_loads[d]
                  /\ raid = "RAID 5" =>
                        disk_loads'[ParityDisk(idx, num)] =
                            disk_loads[ParityDisk(idx, num)]
            /\ raid = "RAID 1" =>
                  \A d \in Disks : disk_loads'[d] = disk_loads[d] + size

\* what C25 says of the state after every processed file
C25_State ==
    Running =>
        /\ raid \in {"RAID 0", "RAID 5"} =>
              /\ LoadSum(disk_loads, num) = SumSizes(idx)
              /\ \A i \in Processed : Len(assignment[i].targets) = 1
        /\ raid = "RAID 1" => \A d \in Disks : disk_loads[d] = SumSizes(idx)

\* C25: load conservation.  After every processed file, under Striped and
\* ParityRotating the sum of all disk loads is the sum of the sizes of the
\* files processed so far, each file is counted on exactly one disk and the
\* load of the file's parity disk is unchanged by that file; under Mirrored
\* every disk's load is that sum.
C25_LoadConservation == [](C25_State) /\ [][C25_Step]_vars

\* a finished ParityRotating run of three files of sizes 100, 200, 100 whose
\* loads sum to 400
C25_Witness ==
    /\ raid = "RAID 5" /\ num = 3 /\ pc = "done" /\ Len(assignment) = 3
    /\ files[1].size # files[2].size
    /\ LoadSum(disk_loads, num) = SumSizes(3)
    /\ SumSizes(3) > 0

\* the total size of the data files stored in a disk folder
RECURSIVE StoredIn(_, _)
StoredIn(dir, names) ==
    IF names = {} THEN 0
    ELSE LET x == CHOOSE y \in names : TRUE
         IN  (IF dir[x].kind = "data" THEN dir[x].size ELSE 0)
                 + StoredIn(dir, names \ {x})

Stored(d) == StoredIn(disks[d], DOMAIN disks[d])

\* the file at position i is on disk d as its own copy
OwnCopyOn(i, d) ==
    /\ FileName(files[i]) \in DOMAIN disks[d]
    /\ disks[d][FileName(files[i])].kind = "data"
    /\ disks[d][FileName(files[i])].src = PathOf(files[i])

\* the file at position i has its own parity marker on its parity disk
OwnMarker(i) ==
    LET m == MarkerOn(assignment[i].p_disk, files[i])
    IN  /\ m.kind = "parity"
        /\ m.for = FileName(files[i])
        /\ m.dataDisk = assignment[i].targets[1]

\* C26: after build_virtual_disks finishes on any file list (names need not
\* be unique) over a valid configuration, every file is present as its own
\* copy on each of its target disks, every ParityRotating file has its own
\* parity marker, and disk_loads[d] is the total size of the data files
\* stored on disk d.
C26_NothingOverwritten ==
    (pc = "done" /\ ValidConfig) =>
        /\ \A i \in Processed : \A d \in TargetSet(i) : OwnCopyOn(i, d)
        /\ raid = "RAID 5" => \A i \in Processed : OwnMarker(i)
        /\ \A d \in Disks : disk_loads[d] = Stored(d)

\* ======================================================================
\* Data_Analysis.append_run: the run log
\* ======================================================================
\* A pandas DataFrame is an object on the heap, named by its position in
\* heap (reference 0 is None): the column names and the rows in index order.

\* calls of run_raid_simulation in one behaviour
MaxSimulations == 2

\* for raid_level in ["RAID 0", "RAID 1", "RAID 5"]
LoopLevels == << "RAID 0", "RAID 1", "RAID 5" >>

\* the run_info dictionaries of one level: the level and the two random IOPS
\* values, random.randint(800, 1500) and random.randint(500, 1200) at their
\* ends (the times and the capacity figures are fixed by the level)
RunInfos(raid_level) ==
    { [ raid_level |-> raid_level, read_iops |-> r, write_iops |-> w ] :
        r \in { 800, 1500 }, w \in { 500, 1200 } }

\* pd.DataFrame([run_info_dict]): one row, the keys as columns
RowFrame(run_info_dict) ==
    [ columns |-> DOMAIN run_info_dict, rows |-> << run_info_dict >> ]

\* df.empty: no row or no column
Empty(frame) == Len(frame.rows) = 0 \/ frame.columns = { }

\* pd.concat([df, row], ignore_index=True): a new frame
Concat(frame, row) ==
    [ columns |-> frame.columns \cup row.columns,
      rows    |-> frame.rows \o row.rows ]

\* what is recorded for a call that passed None
NoFrame == [ columns |-> { }, rows |-> << >> ]

\* Variant: the row is appended to the frame passed in (df.loc[len(df)] = ...)
\* and that frame is returned.
append_run_inplace(h, df, run_info_dict) ==
    LET row == RowFrame(run_info_dict)
        h1  == Append(h, row)
    IN  IF df = 0 \/ Empty(h1[df])
        THEN [ heap |-> h1, ref |-> Len(h1) ]
        ELSE [ heap |-> [ h1 EXCEPT ![df] = Concat(h1[df], row) ],
               ref  |-> df ]

\* append_run(df, run_info_dict) on the heap h: the heap afterwards and the
\* reference returned
append_run(h, df, run_info_dict) ==
    LET row == RowFrame(run_info_dict)
        h1  == Append(h, row)
    IN  IF df = 0 \/ Empty(h1[df])
        THEN [ heap |-> h1, ref |-> Len(h1) ]
        ELSE LET h2 == Append(h1, Concat(h1[df], row))
             IN  [ heap |-> h2, ref |-> Len(h2) ]

\* Raid_Simulation has been imported, run_raid_simulation not yet called
LogInit ==
    /\ raid = "RAID 0"
    /\ num = 0
    /\ files = << >>
    /\ pc = "idle"
    /\ idx = 0
    /\ disk_loads = << >>
    /\ disks = << >>
    /\ assignment = << >>
    /\ prev = NoRun
    /\ call = NoCall
    /\ ret = NoCall
    /\ LogIdle
    /\ AppIdle

\* the files of the call with this id have been saved
Saved(id) ==
    \E w \in written : w.run = id /\ w.name = FixedName("raid_report.csv")

\* run_raid_simulation is called: df = None
LogStart ==
    /\ ncalls < MaxSimulations
    /\ ncalls = 0 \/ Saved(ncalls)
    /\ ncalls' = ncalls + 1
    /\ heap' = << >>
    /\ log' = 0
    /\ passed' = << >>
    /\ calls' = << >>
    /\ UNCHANGED << pyplot, last_scan, threads, written, clock >>
    /\ UNCHANGED << pvars, cvars >>

\* one iteration of the loop: df = append_run(df, run_info)
AppendRun ==
    /\ ncalls >= 1
    /\ Len(calls) < Len(LoopLevels)
    /\ \E run_info \in RunInfos(LoopLevels[Len(calls) + 1]) :
          LET r == append_run(heap, log, run_info)
          IN  /\ heap' = r.heap
              /\ log' = r.ref
              /\ passed' = Append(passed,
                                  [ ref   |-> log,
                                    frame |-> IF log = 0 THEN NoFrame
                                              ELSE heap[log] ])
              /\ calls' = Append(calls, run_info)
    /\ UNCHANGED << pvars, cvars, avars >>

\* after the loop: save_report_csv(df, "raid_report.csv") and
\* save_report_csv(stats, "raid_summary.csv"), to_csv replacing the file of
\* an earlier call
SaveReports ==
    /\ ncalls >= 1
    /\ Len(calls) = Len(LoopLevels)
    /\ ~Saved(ncalls)
    /\ written' = written \cup
           { WriteEvent(FixedName("raid_report.csv"), ncalls, heap[log].rows),
             WriteEvent(FixedName("raid_summary.csv"), ncalls, heap[log].rows) }
    /\ UNCHANGED << pyplot, last_scan, threads, clock, ncalls >>
    /\ UNCHANGED << pvars, cvars, lvars >>

LogNext ==
    \/ LogStart
    \/ AppendRun
    \/ SaveReports

LogSpec == LogInit /\ [][LogNext]_vars

\* s is a prefix of t
IsPrefix(s, t) == Len(s) <= Len(t) /\ SubSeq(t, 1, Len(s)) = s

\* C21: the run log is append-only.  Starting from None, after k calls of
\* append_run the returned log holds exactly the k rows of the calls in call
\* order, the rows of the log passed to each call are a prefix of every later
\* log, and the log object passed to a call still holds what it held when it
\* was passed.
C21_AppendOnly ==
    /\ log = 0 <=> calls = << >>
    /\ log # 0 =>
          /\ Len(heap[log].rows) = Len(calls)
          /\ heap[log].rows = calls
    /\ \A k \in 1 .. Len(passed) :
          passed[k].ref # 0 =>
              /\ heap[passed[k].ref] = passed[k].frame
              /\ passed[k].frame.rows = SubSeq(calls, 1, k - 1)
              /\ IsPrefix(passed[k].frame.rows, heap[log].rows)

\* three runs have been appended, the second differing from the first
C21_Witness ==
    /\ Len(calls) = 3
    /\ calls[1] # calls[2]
    /\ log # 0
    /\ Len(heap[log].rows) = 3
    /\ passed[3].ref # 0
    /\ passed[3].ref # log

\* ======================================================================
\* run.py: scan_folder and run_simulation on the shared last_scan
\* ======================================================================
\* Gradio runs each handler call in a worker thread, so the calls of
\* scan_folder and run_simulation interleave between their accesses to
\* last_scan, the clock and the reports folder.

\* handler calls started in one behaviour
MaxCalls == 3

\* seconds the clock advances in one behaviour
MaxClock == 1

\* num_disks values of the slider used here (its range starts at 2)
AppDisks == { 2, 3 }

\* raid_level values of the radio used here: a mirror, and the parity level
\* that two disks cannot carry
AppLevels == { "RAID 1", "RAID 5" }

\* the folder_path arguments: not a directory, a directory without media
\* files, and two media folders
Folders == { "missing", "docs", "A", "B" }

\* os.path.isdir(folder_path)
IsDir(folder_path) == folder_path # "missing"

\* a directory: its files and its sub-directories
Dir(fs, ds) == [ files |-> fs, dirs |-> ds ]

\* a file of a directory; the extension is the characters after the last dot
\* of the name, as os.path.splitext cuts them
Entry(dir, stem, ext, size) ==
    [ dir |-> dir, stem |-> stem, ext |-> ext, size |-> size ]

\* what is on disk under each folder_path
Tree(folder_path) ==
    IF folder_path = "A"
    THEN Dir({ Entry("A", "a", << "j", "p", "g" >>, 100) }, { })
    ELSE IF folder_path = "B"
    THEN Dir({ Entry("B", "notes", << "t", "x", "t" >>, 50) },
             { Dir({ Entry("B/d1", "a", << "p", "n", "g" >>, 100) }, { }),
               Dir({ Entry("B/d2", "b", << "M", "P", "4" >>, 200) }, { }) })
    ELSE IF folder_path = "docs"
    THEN Dir({ Entry("docs", "readme", << "t", "x", "t" >>, 50) }, { })
    ELSE Dir({ }, { })

\* the orders in which a directory listing can return the members of S
Listings(S) ==
    { l \in [ 1 .. Cardinality(S) -> S ] :
        \A i, j \in 1 .. Cardinality(S) : i # j => l[i] # l[j] }

\* the file lists os.walk can produce for a directory, top down: its files,
\* then its sub-directories one after the other, each level in the order the
\* file system returns it (the code does not sort)
RECURSIVE Walks(_)
Walks(tree) ==
    LET RECURSIVE Below(_, _)
        Below(order, k) ==
            IF k > Len(order) THEN { << >> }
            ELSE { w \o rest : w \in Walks(order[k]),
                               rest \in Below(order, k + 1) }
    IN  { fs \o rest : fs \in Listings(tree.files),
                       rest \in UNION { Below(order, 1) :
                                          order \in Listings(tree.dirs) } }

\* os.walk(folder_path)
Walk(folder_path) == Walks(Tree(folder_path))

UpperLetters ==
    << "A", "B", "C", "D", "E", "F", "G", "H", "I", "J", "K", "L", "M",
       "N", "O", "P", "Q", "R", "S", "T", "U", "V", "W", "X", "Y", "Z" >>

LowerLetters ==
    << "a", "b", "c", "d", "e", "f", "g", "h", "i", "j", "k", "l", "m",
       "n", "o", "p", "q", "r", "s", "t", "u", "v", "w", "x", "y", "z" >>

\* str.lower() on a string of ASCII characters
lower(str) ==
    [ i \in DOMAIN str |->
        IF \E k \in DOMAIN UpperLetters : UpperLetters[k] = str[i]
        THEN LowerLetters[CHOOSE k \in DOMAIN UpperLetters :
                              UpperLetters[k] = str[i]]
        ELSE str[i] ]

\* the extensions of SUPPORTED_EXT, without the dot
SUPPORTED_EXT ==
    { << "j", "p", "g" >>, << "j", "p", "e", "g" >>, << "p", "n", "g" >>,
      << "b", "m", "p" >>, << "g", "i", "f" >>, << "m", "p", "4" >>,
      << "m", "o", "v" >>, << "m", "k", "v" >>, << "a", "v", "i" >>,
      << "w", "e", "b", "m" >> }

\* the list comprehension of scan_folder: the walked files whose lower-cased
\* extension is supported, in walk order
RECURSIVE MediaFrom(_, _)
MediaFrom(walked, k) ==
    IF k > Len(walked) THEN << >>
    ELSE IF lower(walked[k].ext) \in SUPPORTED_EXT
         THEN << walked[k] >> \o MediaFrom(walked, k + 1)
         ELSE MediaFrom(walked, k + 1)

\* for every folder, the values files can take in a scan of it
Scannable ==
    [ folder_path \in Folders |->
        { MediaFrom(w, 1) : w \in Walk(folder_path) } ]

MediaFiles(folder_path) == Scannable[folder_path]

\* Variant: only the first file is added to total_bytes.
SizeOfAll_first(fs, k) == IF fs = << >> THEN 0 ELSE getsize(fs[1])

\* the loop total_bytes += os.path.getsize(p) over the files k, k+1, ...
RECURSIVE SizeOfAll(_, _)
SizeOfAll(fs, k) ==
    IF k > Len(fs) THEN 0 ELSE getsize(fs[k]) + SizeOfAll(fs, k + 1)

\* Variant: the check is passed whatever last_scan holds.
HasScan_always(scan) == TRUE

\* the check of run_simulation: last_scan["files"] is not empty
HasScan(scan) == scan.files # << >>

\* Variant: the dictionary is built without the capacity functions.
run_data_unchecked(raid_level, num_disks, total_files, total_size_bytes) ==
    Value([ raid_level       |-> raid_level,
            disk_count       |-> num_disks,
            total_files      |-> total_files,
            total_size_bytes |-> total_size_bytes ])

\* the run_data dictionary (the simulated times left out), or the exception
\* usable_capacity_percent or space_efficiency raises while it is built
run_data(raid_level, num_disks, total_files, total_size_bytes) ==
    LET u == usable_capacity_percent(num_disks, raid_level)
        e == space_efficiency(num_disks, raid_level)
    IN  IF u.kind = "error" THEN u
        ELSE IF e.kind = "error" THEN e
        ELSE Value([ raid_level       |-> raid_level,
                     disk_count       |-> num_disks,
                     total_files      |-> total_files,
                     total_size_bytes |-> total_size_bytes,
                     usable           |-> u.val,
                     efficiency       |-> FMul(e.val, Float(100)) ])

\* datetime.now().strftime("%Y%m%d_%H%M%S"): the clock to the second
Timestamp(now) == now

\* where a name of the files dict ends up: save_report_csv is handed the bare
\* file name and writes it under "reports" in the working directory; savefig
\* is handed the path under REPORTS_DIR, beside run.py
OutputRoot(kind) ==
    IF kind \in { "report", "summary" } THEN "cwd" ELSE "REPORTS_DIR"

\* the names of the files of a run: report_{ts}.csv, summary_{ts}.csv,
\* pie_{ts}.png and bar_{ts}.png
OutputName(kind, ts) ==
    [ kind |-> kind, ts |-> ts, root |-> OutputRoot(kind) ]

\* base / f"disk_{i}", base being virtual_disks_{ts}/<raid>
DiskName(ts, raid_level, i) ==
    [ kind |-> "disk", ts |-> ts, raid |-> raid_level, disk |-> i ]

\* a file inside a disk folder
DiskFileName(ts, raid_level, i, file) ==
    [ kind |-> "file", ts |-> ts, raid |-> raid_level, disk |-> i,
      file |-> file ]

\* shutil.make_archive(base.parent / base.name, "zip", base)
ZipName(ts, raid_level) ==
    [ kind |-> "zip", ts |-> ts, raid |-> raid_level ]

\* thread t is not inside a handler
Waiting(t) == threads[t].pc \in { "idle", "returned", "raised" }

\* a new call is handed to the first worker that waits
Free(t) ==
    /\ ncalls < MaxCalls
    /\ Waiting(t)
    /\ \A u \in Threads : u < t => ~Waiting(u)

\* thread t is inside fn at the position pc
At(t, fn, where) == threads[t].pc = where /\ threads[t].fn = fn

\* "Scan folder first.", *([None]*5)
ScanFirst == << "Scan folder first.", "None", "None", "None", "None", "None" >>

\* the locals of a scan_folder call
ScanCall(id, folder_path, where, fs, total_bytes, result) ==
    [ fn |-> "scan_folder", id |-> id, pc |-> where,
      folder_path |-> folder_path, files |-> fs, total_bytes |-> total_bytes,
      result |-> result ]

\* the locals of a run_simulation call
RunCall(id, num_disks, raid_level, where, result) ==
    [ fn |-> "run_simulation", id |-> id, pc |-> where,
      num_disks |-> num_disks, raid_level |-> raid_level,
      total_files |-> 0, total_size_bytes |-> 0, ts |-> 0,
      files |-> << >>, idx |-> 0, k |-> 0, disk_loads |-> << >>,
      dirs |-> { }, todo |-> { }, packed |-> { },
      result |-> result ]

\* ---- scan_folder ----

\* the folder is not a directory, or holds no supported media file: the
\* function returns its error message and never reaches last_scan.update
ScanFail ==
    \E t \in Threads, folder_path \in Folders :
        /\ Free(t)
        /\ ~IsDir(folder_path) \/ MediaFiles(folder_path) = { << >> }
        /\ threads' = [ threads EXCEPT ![t] =
                          ScanCall(ncalls + 1, folder_path, "returned",
                                   << >>, 0,
                                   IF ~IsDir(folder_path)
                                   THEN << "Invalid folder.", "None", "0" >>
                                   ELSE << "No media files found.", "None",
                                           "0" >>) ]
        /\ ncalls' = ncalls + 1
        /\ UNCHANGED << pyplot, last_scan, written, clock >>
        /\ UNCHANGED << pvars, cvars, lvars >>

\* the folder holds media files: they are listed in the order of the walk and
\* their sizes are read and added up
ScanStart ==
    \E t \in Threads, folder_path \in Folders :
        /\ Free(t)
        /\ IsDir(folder_path)
        /\ \E fs \in MediaFiles(folder_path) :
              /\ fs # << >>
              /\ threads' = [ threads EXCEPT ![t] =
                                ScanCall(ncalls + 1, folder_path, "update",
                                         fs, SizeOfAll(fs, 1), << >>) ]
        /\ ncalls' = ncalls + 1
        /\ UNCHANGED << pyplot, last_scan, written, clock >>
        /\ UNCHANGED << pvars, cvars, lvars >>

\* last_scan.update replaces the three entries in one call, and the function
\* returns the summary
ScanUpdate ==
    \E t \in Threads :
        /\ At(t, "scan_folder", "update")
        /\ last_scan' = [ folder      |-> threads[t].folder_path,
                          files       |-> threads[t].files,
                          total_bytes |-> threads[t].total_bytes ]
        /\ threads' = [ threads EXCEPT ![t] =
                          ScanCall(@.id, @.folder_path, "returned", << >>, 0,
                                   << "Scan Results", "rows", "MB" >>) ]
        /\ UNCHANGED << pyplot, written, clock, ncalls >>
        /\ UNCHANGED << pvars, cvars, lvars >>

\* ---- run_simulation ----

\* nothing has been scanned: the error tuple is returned at once
RunRejected ==
    \E t \in Threads, num_disks \in AppDisks, raid_level \in AppLevels :
        /\ Free(t)
        /\ ~HasScan(last_scan)
        /\ threads' = [ threads EXCEPT ![t] =
                          RunCall(ncalls + 1, num_disks, raid_level,
                                  "returned", ScanFirst) ]
        /\ ncalls' = ncalls + 1
        /\ UNCHANGED << pyplot, last_scan, written, clock >>
        /\ UNCHANGED << pvars, cvars, lvars >>

\* the check passes; the read and write simulations sleep
RunStart ==
    \E t \in Threads, num_disks \in AppDisks, raid_level \in AppLevels :
        /\ Free(t)
        /\ HasScan(last_scan)
        /\ threads' = [ threads EXCEPT ![t] =
                          RunCall(ncalls + 1, num_disks, raid_level,
                                  "count", << >>) ]
        /\ ncalls' = ncalls + 1
        /\ UNCHANGED << pyplot, last_scan, written, clock >>
        /\ UNCHANGED << pvars, cvars, lvars >>

\* "total_files": len(last_scan["files"])
RunCount ==
    \E t \in Threads :
        /\ At(t, "run_simulation", "count")
        /\ threads' = [ threads EXCEPT ![t] =
                          [ @ EXCEPT !.pc = "size",
                                     !.total_files = Len(last_scan.files) ] ]
        /\ UNCHANGED << pyplot, last_scan, written, clock, ncalls >>
        /\ UNCHANGED << pvars, cvars, lvars >>

\* "total_size_bytes": last_scan["total_bytes"], then the capacity metrics,
\* which raise for a configuration the capacity model rejects
RunMetrics ==
    \E t \in Threads :
        /\ At(t, "run_simulation", "size")
        /\ LET d == run_data(threads[t].raid_level, threads[t].num_disks,
                             threads[t].total_files, last_scan.total_bytes)
           IN  threads' = [ threads EXCEPT ![t] =
                 IF d.kind = "error"
                 THEN [ @ EXCEPT !.pc = "raised", !.result = << d.type >>,
                                 !.total_size_bytes = last_scan.total_bytes ]
                 ELSE [ @ EXCEPT !.pc = "stamp",
                                 !.total_size_bytes = last_scan.total_bytes ] ]
        /\ UNCHANGED << pyplot, last_scan, written, clock, ncalls >>
        /\ UNCHANGED << pvars, cvars, lvars >>

\* the row of the run in the report and in the summary
ReportRow(c) ==
    [ raid_level       |-> c.raid_level,
      disk_count       |-> c.num_disks,
      total_files      |-> c.total_files,
      total_size_bytes |-> c.total_size_bytes ]

\* one write of thread t under a name, after which the call stands at next
SaveStep(t, where, kind, data, next) ==
    /\ At(t, "run_simulation", where)
    /\ written' = written \cup
           { WriteEvent(OutputName(kind, threads[t].ts), threads[t].id, data) }
    /\ threads' = [ threads EXCEPT ![t] = [ @ EXCEPT !.pc = next ] ]
    /\ UNCHANGED << pyplot, last_scan, clock, ncalls >>
    /\ UNCHANGED << pvars, cvars, lvars >>

\* ts = datetime.now().strftime(...): the clock is read once
RunStamp ==
    \E t \in Threads :
        /\ At(t, "run_simulation", "stamp")
        /\ threads' = [ threads EXCEPT ![t] =
                          [ @ EXCEPT !.pc = "report",
                                     !.ts = Timestamp(clock) ] ]
        /\ UNCHANGED << pyplot, last_scan, written, clock, ncalls >>
        /\ UNCHANGED << pvars, cvars, lvars >>

\* save_report_csv(df, files["report"].name)
RunSaveReport ==
    \E t \in Threads :
        SaveStep(t, "report", "report", ReportRow(threads[t]), "summary")

\* save_report_csv(stats_df, files["stats"].name)
RunSaveSummary ==
    \E t \in Threads :
        SaveStep(t, "summary", "summary", ReportRow(threads[t]), "fig1")

\* ---- the charts ----
\* pyplot keeps one current figure for the whole process: plt.figure makes a
\* new figure the current one, and plt.pie, plt.bar, plt.title and plt.ylabel
\* act on whatever figure is current when they are called, whichever call has
\* made it. savefig is called on the figure object of the call itself and
\* writes what is on that figure at that moment: nothing, when another call
\* has made its own figure current before the drawing, or the drawings of
\* several calls. Nothing in run.py closes a figure; once a figure is saved
\* nothing drawn on it reaches a file any more, and the model keeps it
\* without its artists.

\* the figure objects fig1 and fig2 of a call
Fig1(c) == << c.id, "fig1" >>
Fig2(c) == << c.id, "fig2" >>

\* a figure nothing is drawn on
EmptyFigure ==
    [ drawn |-> { }, title |-> "", ylabel |-> "", saved |-> FALSE ]

\* a figure that has been written to its file
SavedFigure ==
    [ drawn |-> { }, title |-> "", ylabel |-> "", saved |-> TRUE ]

\* the current figure can still reach a file
Unsaved(plot) == ~plot.figures[plot.current].saved

\* plt.figure(...): a new figure, which becomes the current one
NewFigure(plot, fig) ==
    [ current |-> fig,
      figures |-> [ g \in (DOMAIN plot.figures) \cup { fig } |->
                      IF g = fig THEN EmptyFigure ELSE plot.figures[g] ] ]

\* plt.pie / plt.bar: wedges or bars are added to the current figure
Draw(plot, artist) ==
    IF Unsaved(plot)
    THEN [ plot EXCEPT !.figures[plot.current].drawn = @ \cup { artist } ]
    ELSE plot

\* plt.title(text): the title of the current figure is replaced
Title(plot, text) ==
    IF Unsaved(plot)
    THEN [ plot EXCEPT !.figures[plot.current].title = text ]
    ELSE plot

\* plt.ylabel(text): the y label of the current figure is replaced
YLabel(plot, text) ==
    IF Unsaved(plot)
    THEN [ plot EXCEPT !.figures[plot.current].ylabel = text ]
    ELSE plot

\* the wedges of plt.pie([bd["usable"], bd["parity"], bd["mirror"]], ...)
Pie(c) ==
    [ what |-> "pie", by |-> c.id,
      of   |-> calculate_capacity_breakdown_dict(c.num_disks,
                                                 c.raid_level).val ]

\* the bar of plt.bar([raid_level], [run_data["total_time_ms"]]): one bar at
\* the level of the run, its height the time measured by that run
Bar(c) == [ what |-> "bar", by |-> c.id, of |-> c.raid_level ]

\* one pyplot call of thread t, after which the call stands at next
PlotStep(t, where, plot, next) ==
    /\ At(t, "run_simulation", where)
    /\ pyplot' = plot
    /\ threads' = [ threads EXCEPT ![t] = [ @ EXCEPT !.pc = next ] ]
    /\ UNCHANGED << last_scan, written, clock, ncalls >>
    /\ UNCHANGED << pvars, cvars, lvars >>

\* fig.savefig(files[kind]): the figure object of the call is written as it
\* is in this state; the write is recorded with the configuration of the
\* call and the figure it saved
SaveFigure(t, where, kind, fig, next) ==
    /\ At(t, "run_simulation", where)
    /\ written' = written \cup
           { WriteEvent(OutputName(kind, threads[t].ts), threads[t].id,
                        [ raid_level |-> threads[t].raid_level,
                          disk_count |-> threads[t].num_disks,
                          figure     |-> fig ]) }
    /\ pyplot' = [ pyplot EXCEPT !.figures[fig] = SavedFigure ]
    /\ threads' = [ threads EXCEPT ![t] = [ @ EXCEPT !.pc = next ] ]
    /\ UNCHANGED << last_scan, clock, ncalls >>
    /\ UNCHANGED << pvars, cvars, lvars >>

\* fig1 = plt.figure(figsize=(5,5))
RunPieFigure ==
    \E t \in Threads :
        PlotStep(t, "fig1", NewFigure(pyplot, Fig1(threads[t])), "pie")

\* bd = calculate_capacity_breakdown_dict(num_disks, raid_level); plt.pie(...)
RunPie ==
    \E t \in Threads :
        PlotStep(t, "pie", Draw(pyplot, Pie(threads[t])), "title1")

\* plt.title("Capacity Distribution")
RunPieTitle ==
    \E t \in Threads :
        PlotStep(t, "title1", Title(pyplot, "Capacity Distribution"),
                 "savepie")

\* fig1.savefig(files["pie"])
RunSavePie ==
    \E t \in Threads :
        SaveFigure(t, "savepie", "pie", Fig1(threads[t]), "fig2")

\* fig2 = plt.figure(figsize=(6,4))
RunBarFigure ==
    \E t \in Threads :
        PlotStep(t, "fig2", NewFigure(pyplot, Fig2(threads[t])), "bar")

\* plt.bar([raid_level], [run_data["total_time_ms"]])
RunBar ==
    \E t \in Threads :
        PlotStep(t, "bar", Draw(pyplot, Bar(threads[t])), "ylabel")

\* plt.ylabel("Time (ms)")
RunBarLabel ==
    \E t \in Threads :
        PlotStep(t, "ylabel", YLabel(pyplot, "Time (ms)"), "title2")

\* plt.title("Total Performance Time")
RunBarTitle ==
    \E t \in Threads :
        PlotStep(t, "title2", Title(pyplot, "Total Performance Time"),
                 "savebar")

\* fig2.savefig(files["bar"])
RunSaveBar ==
    \E t \in Threads :
        SaveFigure(t, "savebar", "bar", Fig2(threads[t]), "enter")

\* build_virtual_disks(raid_level, num_disks, last_scan["files"], ts): the
\* list last_scan holds at this moment is handed to the call, and stays with
\* it whatever a later scan puts into last_scan
RunEnter ==
    \E t \in Threads :
        /\ At(t, "run_simulation", "enter")
        /\ threads' = [ threads EXCEPT ![t] =
                          [ @ EXCEPT !.pc = "mkdir",
                                     !.files = last_scan.files,
                                     !.k = 0 ] ]
        /\ UNCHANGED << pyplot, last_scan, written, clock, ncalls >>
        /\ UNCHANGED << pvars, cvars, lvars >>

\* for d in disks.values(): d.mkdir(parents=True, exist_ok=True), one folder
\* a step; a folder that is there is left as it is. After the last one,
\* disk_loads = {i: 0 for i in range(num)} and the loop over the files begins
RunMkdir ==
    \E t \in Threads :
        /\ At(t, "run_simulation", "mkdir")
        /\ LET c == threads[t]
               d == DiskName(c.ts, c.raid_level, c.k)
           IN  /\ written' = IF \E w \in written : w.name = d THEN written
                             ELSE written \cup
                                      { WriteEvent(d, c.id, [ disk |-> c.k ]) }
               /\ threads' = [ threads EXCEPT ![t] =
                     IF c.k + 1 < c.num_disks
                     THEN [ @ EXCEPT !.k = c.k + 1 ]
                     ELSE [ @ EXCEPT !.pc = "copy", !.idx = 0, !.k = 1,
                                     !.disk_loads =
                                         InitialLoads(c.num_disks) ] ]
        /\ UNCHANGED << pyplot, last_scan, clock, ncalls >>
        /\ UNCHANGED << pvars, cvars, lvars >>

\* the call has placed the file at idx: the next file, or the archive
NextFile(c) ==
    IF c.idx + 1 < Len(c.files)
    THEN [ c EXCEPT !.pc = "copy", !.idx = c.idx + 1, !.k = 1 ]
    ELSE [ c EXCEPT !.pc = "archive" ]

\* shutil.copy2(f, disks[t]); disk_loads[t] += size, for the k-th target of
\* the file at idx. RAID 1 has every disk as a target, whatever the loads;
\* the other levels have one target, chosen from the loads before the copy
RunCopy ==
    \E t \in Threads :
        /\ At(t, "run_simulation", "copy")
        /\ LET c == threads[t]
               f == c.files[c.idx + 1]
               targets == Targets(c.raid_level, c.num_disks, c.idx,
                                  c.disk_loads)
               target == targets[c.k]
               copied == [ c EXCEPT !.disk_loads[target] = @ + getsize(f) ]
           IN  /\ written' = written \cup
                     { WriteEvent(DiskFileName(c.ts, c.raid_level, target,
                                               FileName(f)),
                                  c.id, f) }
               /\ threads' = [ threads EXCEPT ![t] =
                     IF c.k < Len(targets)
                     THEN [ copied EXCEPT !.k = c.k + 1 ]
                     ELSE IF c.raid_level = "RAID 5"
                     THEN [ copied EXCEPT !.pc = "parity", !.k = target ]
                     ELSE NextFile(copied) ]
        /\ UNCHANGED << pyplot, last_scan, clock, ncalls >>
        /\ UNCHANGED << pvars, cvars, lvars >>

\* the name of the marker among the names of the scanned files, whose
\* extensions are kept letter by letter
MarkerName(f) == [ ParityName(f) EXCEPT !.ext = << "t", "x", "t" >> ]

\* RAID 5: the marker {stem}_PARITY.txt is written on disk idx % num; it
\* names the file and targets[0], which k holds since the copy
RunParity ==
    \E t \in Threads :
        /\ At(t, "run_simulation", "parity")
        /\ LET c == threads[t]
               f == c.files[c.idx + 1]
               p == ParityDisk(c.idx, c.num_disks)
           IN  /\ written' = written \cup
                     { WriteEvent(DiskFileName(c.ts, c.raid_level, p,
                                               MarkerName(f)),
                                  c.id, [ parity_for |-> FileName(f),
                                          data_on    |-> c.k ]) }
               /\ threads' = [ threads EXCEPT ![t] = NextFile(c) ]
        /\ UNCHANGED << pyplot, last_scan, clock, ncalls >>
        /\ UNCHANGED << pvars, cvars, lvars >>

\* ---- shutil.make_archive ----
\* The archive is filled by os.walk over the base folder, top down: the base
\* folder is listed, then every disk folder found there is listed in its
\* turn (in the order the file system gave them) and the files listed are
\* packed. Other calls write into the folder meanwhile, so each listing shows
\* the folder at another moment.

\* the disk folders in virtual_disks_{ts}/<raid>, whichever call has made
\* them (the folder is never emptied)
DisksIn(ts, raid_level) ==
    { w.name.disk : w \in { x \in written : /\ x.name.kind = "disk"
                                            /\ x.name.ts = ts
                                            /\ x.name.raid = raid_level } }

\* the files in one disk folder, whichever call has put them there
FilesIn(ts, raid_level, d) ==
    { [ disk |-> d, file |-> w.name.file ] :
        w \in { x \in written : /\ x.name.kind = "file"
                                /\ x.name.ts = ts
                                /\ x.name.raid = raid_level
                                /\ x.name.disk = d } }

\* shutil.make_archive is entered: the base folder is listed
RunArchive ==
    \E t \in Threads :
        /\ At(t, "run_simulation", "archive")
        /\ threads' = [ threads EXCEPT ![t] =
              [ @ EXCEPT !.pc = "walk",
                         !.dirs = DisksIn(threads[t].ts,
                                          threads[t].raid_level),
                         !.todo = DisksIn(threads[t].ts,
                                          threads[t].raid_level),
                         !.packed = { } ] ]
        /\ UNCHANGED << pyplot, last_scan, written, clock, ncalls >>
        /\ UNCHANGED << pvars, cvars, lvars >>

\* the walk reaches one of the disk folders it has found: the folder is
\* listed and its files go into the archive
RunWalk ==
    \E t \in Threads :
        /\ At(t, "run_simulation", "walk")
        /\ \E d \in threads[t].todo :
              threads' = [ threads EXCEPT ![t] =
                 [ @ EXCEPT !.todo = @ \ { d },
                            !.packed = @ \cup FilesIn(threads[t].ts,
                                                      threads[t].raid_level,
                                                      d),
                            !.pc = IF threads[t].todo = { d }
                                   THEN "zip" ELSE "walk" ] ]
        /\ UNCHANGED << pyplot, last_scan, written, clock, ncalls >>
        /\ UNCHANGED << pvars, cvars, lvars >>

\* the archive is closed, and run_simulation returns the message, the two
\* tables, the two figures and the list of the files to download
RunZip ==
    \E t \in Threads :
        /\ At(t, "run_simulation", "zip")
        /\ LET c == threads[t]
           IN  /\ written' = written \cup
                     { WriteEvent(ZipName(c.ts, c.raid_level), c.id,
                                  [ disks |-> c.dirs, files |-> c.packed ]) }
               /\ threads' = [ threads EXCEPT ![t] =
                     RunCall(c.id, c.num_disks, c.raid_level, "returned",
                             << "Done", "df", "stats_df", "fig1", "fig2",
                                "files" >>) ]
        /\ UNCHANGED << pyplot, last_scan, clock, ncalls >>
        /\ UNCHANGED << pvars, cvars, lvars >>

\* a second passes
Tick ==
    /\ clock < MaxClock
    /\ clock' = clock + 1
    /\ UNCHANGED << pyplot, last_scan, threads, written, ncalls >>
    /\ UNCHANGED << pvars, cvars, lvars >>

\* the application is started; no placement and no calculator call is
\* modelled here
AppInit ==
    /\ raid = "RAID 0"
    /\ num = 0
    /\ files = << >>
    /\ pc = "idle"
    /\ idx = 0
    /\ disk_loads = << >>
    /\ disks = << >>
    /\ assignment = << >>
    /\ prev = NoRun
    /\ call = NoCall
    /\ ret = NoCall
    /\ LogIdle
    /\ AppIdle

AppNext ==
    \/ ScanFail
    \/ ScanStart
    \/ ScanUpdate
    \/ RunRejected
    \/ RunStart
    \/ RunCount
    \/ RunMetrics
    \/ RunStamp
    \/ RunSaveReport
    \/ RunSaveSummary
    \/ RunPieFigure
    \/ RunPie
    \/ RunPieTitle
    \/ RunSavePie
    \/ RunBarFigure
    \/ RunBar
    \/ RunBarLabel
    \/ RunBarTitle
    \/ RunSaveBar
    \/ RunEnter
    \/ RunMkdir
    \/ RunCopy
    \/ RunParity
    \/ RunArchive
    \/ RunWalk
    \/ RunZip
    \/ Tick

AppSpec == AppInit /\ [][AppNext]_vars

\* ---- claims about scan_folder and run_simulation ----

\* thread t takes a new call of fn in this step
Starts(t, fn) ==
    /\ Waiting(t)
    /\ threads'[t] # threads[t]
    /\ threads'[t].fn = fn

\* thread t has left a call of fn
Left(t, fn) == threads[t].pc \in { "returned", "raised" } /\ threads[t].fn = fn

\* the write events of the run with this id
WrittenBy(id) == { w \in written : w.run = id }

\* C22: a run_simulation call made while last_scan holds no files returns the
\* error tuple (the message and five None values) in the same step, writes
\* nothing under reports/ and leaves last_scan as it was
C22_Step ==
    \A t \in Threads :
        (Starts(t, "run_simulation") /\ last_scan.files = << >>)
            => /\ threads'[t].pc = "returned"
               /\ threads'[t].result = ScanFirst
               /\ written' = written
               /\ last_scan' = last_scan
               /\ \A u \in Threads \ { t } : threads'[u] = threads[u]

C22_NoScanNoRun == [][C22_Step]_vars

\* a run has been rejected for want of a scan, and nothing is written
C22_Witness ==
    \E t \in Threads :
        /\ Left(t, "run_simulation")
        /\ threads[t].result = ScanFirst
        /\ last_scan = NoScan
        /\ written = ImportWrites

\* C23: the outputs of a run are never overwritten by or mixed with those of
\* another run: no name under reports/ (report, summary, pie, bar file,
\* virtual-disk folder, archive) is written by two different runs
C23_NoRunOverwritesAnother ==
    \A w1 \in written, w2 \in written :
        w1.name = w2.name => w1.run = w2.run

\* the call of thread t is inside build_virtual_disks
Building(t) ==
    /\ threads[t].pc \in { "mkdir", "copy", "parity", "archive", "walk", "zip" }
    /\ threads[t].fn = "run_simulation"

\* C27: the total_files and total_size_bytes in a run's report describe
\* exactly the file list the same run hands to build_virtual_disks
C27_OneSnapshot ==
    \A t \in Threads :
        Building(t) =>
            \A r \in WrittenBy(threads[t].id) :
                r.name.kind = "report"
                    => /\ r.data.total_files = Len(threads[t].files)
                       /\ r.data.total_size_bytes =
                              SizeOfAll(threads[t].files, 1)

\* the sizes of the files of a list, added up
RECURSIVE SumOfSizes(_)
SumOfSizes(fs) ==
    IF fs = << >> THEN 0 ELSE Head(fs).size + SumOfSizes(Tail(fs))

\* the scan of this folder fails: not a directory, or no supported media file
ScanFails(folder_path) ==
    \/ ~IsDir(folder_path)
    \/ \A fs \in MediaFiles(folder_path) : fs = << >>

\* last_scan is empty or is one whole scan: the media files of its folder in
\* an order of the walk, and the sum of their sizes
C28_State ==
    \/ last_scan = NoScan
    \/ /\ last_scan.files # << >>
       /\ last_scan.files \in MediaFiles(last_scan.folder)
       /\ last_scan.total_bytes = SumOfSizes(last_scan.files)

\* thread t returns from a scan_folder call in this step
ScanReturns(t) ==
    /\ threads'[t] # threads[t]
    /\ threads'[t].fn = "scan_folder"
    /\ threads'[t].pc = "returned"

\* a failing scan returns its message and keeps last_scan; a successful one
\* replaces folder, files and total_bytes in one step; nothing else writes
\* last_scan
C28_Step ==
    /\ \A t \in Threads :
         ScanReturns(t) =>
           LET f == threads'[t].folder_path
           IN  IF ScanFails(f)
               THEN /\ threads'[t].result[1] \in
                           { "Invalid folder.", "No media files found." }
                    /\ last_scan' = last_scan
               ELSE /\ threads'[t].result[1] = "Scan Results"
                    /\ last_scan'.folder = f
                    /\ last_scan'.files \in MediaFiles(f)
                    /\ last_scan'.total_bytes = SumOfSizes(last_scan'.files)
    /\ (\A t \in Threads : ~ScanReturns(t)) => last_scan' = last_scan

\* C28: a scan_folder call that fails leaves last_scan unchanged, so that a
\* later run finds the most recent successful scan; a successful scan replaces
\* folder, files and total_bytes together, total_bytes being the sum of the
\* sizes of the listed files
C28_ScanFrame == [](C28_State) /\ [][C28_Step]_vars

\* a scan has failed after a successful one, whose three entries are still
\* there
C28_Witness ==
    \E t \in Threads :
        /\ Left(t, "scan_folder")
        /\ threads[t].result[1] = "No media files found."
        /\ last_scan.folder = "B"
        /\ Len(last_scan.files) = 2
        /\ last_scan.total_bytes = 300

\* the configuration the slider and the radio allow and the capacity model
\* rejects
Rejected(raid_level, num_disks) == raid_level = "RAID 5" /\ num_disks < 3

\* no file of a rejected configuration exists, and a call with one that has
\* passed the scan check ends with the ValueError
C29_State ==
    /\ \A w \in written :
         /\ w.name.kind \in { "report", "summary", "pie", "bar" }
              => ~Rejected(w.data.raid_level, w.data.disk_count)
         /\ w.name.kind \in { "disk", "file", "zip" }
              => \A t \in Threads :
                     (threads[t].pc # "idle" /\ threads[t].id = w.run)
                         => ~Rejected(threads[t].raid_level,
                                      threads[t].num_disks)
    /\ \A t \in Threads :
         (/\ threads[t].pc # "idle"
          /\ threads[t].fn = "run_simulation"
          /\ Rejected(threads[t].raid_level, threads[t].num_disks))
             => /\ WrittenBy(threads[t].id) = { }
                /\ threads[t].pc \in { "count", "size", "raised", "returned" }
                /\ threads[t].pc = "raised"
                       => threads[t].result = << "ValueError" >>
                /\ threads[t].pc = "returned"
                       => threads[t].result = ScanFirst

\* no step of a run_simulation call changes last_scan
C29_Step ==
    \A t \in Threads :
        (/\ threads'[t] # threads[t]
         /\ threads'[t].fn = "run_simulation")
            => last_scan' = last_scan

\* C29: run_simulation called after a scan with RAID 5 on 2 disks raises
\* before any report, chart or virtual-disk folder is written, and leaves
\* last_scan unchanged
C29_RejectedBeforeOutput == [](C29_State) /\ [][C29_Step]_vars

\* such a call has raised after a scan, with nothing written
C29_Witness ==
    \E t \in Threads :
        /\ threads[t].pc = "raised"
        /\ threads[t].fn = "run_simulation"
        /\ threads[t].raid_level = "RAID 5"
        /\ threads[t].num_disks = 2
        /\ threads[t].result = << "ValueError" >>
        /\ HasScan(last_scan)
        /\ written = ImportWrites

====
